---------------------------- MODULE Spec2Model ----------------------------
(***************************************************************************)
(* A model of music-maker's MIDI-CSV core: the CSV event parser            *)
(* (midiCsv.ts: parseCsvLines, parseMidiCsv, buildTempoMap), the note      *)
(* pairer and schedule builder (pairNotes, notesToSchedule), the Standard  *)
(* MIDI File encoder (midiFile.ts: encodeVlq, midiCsvToMidiFileBytes),     *)
(* the General MIDI instrument lookup (gm.ts) and the playback handlers    *)
(* of the App component (App.tsx: playFromCsv, stopPlayback).              *)
(*                                                                         *)
(* Spec applies the parser, the tempo map and the encoder to texts,        *)
(* SpecSchedule the parser, the tempo map, pairNotes and notesToSchedule,  *)
(* SpecVlq runs encodeVlq step by step, SpecApp runs the App's handlers.   *)
(*                                                                         *)
(* JavaScript numbers.  A number is a record [k, i, h]: k = "fin" for a    *)
(* finite value i + h/2 (h \in {0,1}, so that Math.floor and the           *)
(* "> 0" tests see a non-integer), k = "nan" for NaN and k = "inf" for     *)
(* +Infinity.  Finite values stay below 2^31, the range of TLC's           *)
(* integers, which is also the range on which ToInt32 is the identity.     *)
(* 32-bit bitwise operators are modelled on signed 32-bit integers.        *)
(*                                                                         *)
(* Text.  A text is a sequence of lines and a line the sequence of its     *)
(* raw comma-separated fields; fields are tokens whose trimmed form        *)
(* (Trim) and numeric value (Number) are given by tables.                  *)
(***************************************************************************)
EXTENDS Integers, Sequences, FiniteSets, TLC

VARIABLES
    text,       \* the CSV text handed to parseMidiCsv / midiCsvToMidiFileBytes
    parsed,     \* result of parseMidiCsv(text), or NotCalled
    tempoMap,   \* segments built by buildTempoMap(parsed.events, parsed.ppq), or NotCalled
    smf,        \* result of midiCsvToMidiFileBytes(text), or NotCalled
    vlq,        \* one execution of encodeVlq: [pc, value, v, buffer, out]
    paired,     \* result of pairNotes(parsed.events), or NotCalled
    scheduled,  \* result of notesToSchedule(paired.notes, ticksToSeconds), or NotCalled
    app,        \* the App component: status, refs, Tone.Transport, playFromCsv calls
    py          \* the Pyodide runner's module variables and its calls

vars == <<text, parsed, tempoMap, smf, vlq, paired, scheduled, app, py>>

(***************************************************************************)
(* Bounds of the model.                                                    *)
(***************************************************************************)
\* Longest text, in lines, of each family of texts.
MaxParseLines == 2
MaxEventLines == 3
MaxTempoLines == 3
MaxNoteLines == 4
MaxProgramLines == 4
\* Clicks on "Play MIDI" in one run of the App.
MaxPlays == 2
\* buildTempoMap is run on tempos up to this many microseconds per quarter
\* and on ticks up to MaxTempoTick in size, so that seconds stay below 2^31.
MaxTempoMpqn == 1000000
MaxTempoTick == 1000
\* encodeVlq is tried on the values within VlqSpread of each 7-bit group boundary.
VlqSpread == 2
\* The unpack loop of encodeVlq is followed for at most this many bytes.
MaxOut == 8

NotCalled == [called |-> FALSE]

Max(a, b) == IF a >= b THEN a ELSE b
Min(a, b) == IF a <= b THEN a ELSE b

(***************************************************************************)
(* JavaScript numbers                                                      *)
(***************************************************************************)
Fin(i) == [k |-> "fin", i |-> i, h |-> 0]
Half(i) == [k |-> "fin", i |-> i, h |-> 1]
NaN == [k |-> "nan", i |-> 0, h |-> 0]
Infinity == [k |-> "inf", i |-> 0, h |-> 0]

IsFinite(x) == x.k = "fin"
\* x > 0 (false for NaN)
GtZero(x) == \/ x.k = "inf"
             \/ x.k = "fin" /\ (x.i > 0 \/ (x.i = 0 /\ x.h = 1))
\* Math.floor of a finite number
Floor(x) == x.i
\* twice a finite number: an integer that orders numbers as a.tick - b.tick does
Twice(x) == 2 * x.i + x.h

(***************************************************************************)
(* 32-bit integer operators (ToInt32 operands, signed results)             *)
(***************************************************************************)
RECURSIVE BitOr(_, _)
\* a | b for 0 <= a, b
BitOr(a, b) ==
    IF a = 0 THEN b
    ELSE IF b = 0 THEN a
    ELSE Max(a % 2, b % 2) + 2 * BitOr(a \div 2, b \div 2)

\* x >> k on a signed 32-bit x (sign-propagating)
Sar(x, k) == x \div (2 ^ k)
\* x << 8 on a signed 32-bit x: the top byte is lost, bit 23 becomes the sign
Shl8(x) ==
    LET low == x % 16777216
    IN  IF low >= 8388608 THEN (low - 16777216) * 256 ELSE low * 256
\* x | b for a signed 32-bit x and a byte b
OrByte(x, b) == (x - (x % 256)) + BitOr(x % 256, b)

(***************************************************************************)
(* midiFile.ts: encodeVlq, one loop iteration per step                     *)
(***************************************************************************)
\* let v = Math.max(0, Math.floor(value)); let buffer = v & 0x7f; out = []
VlqEnter(value) ==
    LET v0 == Max(0, Floor(value))
    IN  [pc |-> "pack", value |-> value, v |-> v0, buffer |-> v0 % 128,
         out |-> <<>>]

\* VlqPackStep without the continuation flag on the groups before the last
VlqPackStepNoFlag(s) ==
    LET v1 == Sar(s.v, 7)
    IN  IF v1 # 0
        THEN [s EXCEPT !.v = v1, !.buffer = OrByte(Shl8(s.buffer), v1 % 128)]
        ELSE [s EXCEPT !.v = v1, !.pc = "unpack"]

\* one test of while ((v >>= 7)) and, when it holds, one run of its body
VlqPackStep(s) ==
    LET v1 == Sar(s.v, 7)
    IN  IF v1 # 0
        THEN [s EXCEPT !.v = v1,
                       !.buffer = OrByte(Shl8(s.buffer), BitOr(128, v1 % 128))]
        ELSE [s EXCEPT !.v = v1, !.pc = "unpack"]

\* one iteration of while (true) { out.push(buffer & 0xff); ... }
VlqUnpackStep(s) ==
    LET pushed == Append(s.out, s.buffer % 256)
    IN  IF (s.buffer \div 128) % 2 = 1
        THEN [s EXCEPT !.out = pushed, !.buffer = Sar(s.buffer, 8)]
        ELSE [s EXCEPT !.out = pushed, !.pc = "done"]

\* The unpack loop can no longer end: the continuation bit is set and
\* buffer >>= 8 leaves buffer as it is, so every later test sees the same buffer.
VlqStuck(s) ==
    /\ s.pc = "unpack"
    /\ (s.buffer \div 128) % 2 = 1
    /\ Sar(s.buffer, 8) = s.buffer

VlqIdle == [pc |-> "idle", value |-> Fin(0), v |-> 0, buffer |-> 0, out |-> <<>>]

Pow2(k) == 2 ^ k
\* values handed to encodeVlq: around every 7-bit group boundary, a
\* non-integer, a negative value, and the largest 32-bit value
VlqInputs ==
    {Fin(Pow2(k) + d) : k \in {0, 7, 14, 21, 28}, d \in (0 - VlqSpread)..VlqSpread}
        \cup {Fin(2147483647 - d) : d \in 0..VlqSpread}
        \cup {Half(Pow2(k)) : k \in {0, 7}}

EncodeVlqCall ==
    /\ vlq.pc = "idle"
    /\ \E value \in VlqInputs : vlq' = VlqEnter(value)
    /\ UNCHANGED <<text, parsed, tempoMap, smf, paired, scheduled, app, py>>

EncodeVlqPack ==
    /\ vlq.pc = "pack"
    /\ vlq' = VlqPackStep(vlq)
    /\ UNCHANGED <<text, parsed, tempoMap, smf, paired, scheduled, app, py>>

EncodeVlqUnpack ==
    /\ vlq.pc = "unpack"
    /\ Len(vlq.out) < MaxOut
    /\ vlq' = VlqUnpackStep(vlq)
    /\ UNCHANGED <<text, parsed, tempoMap, smf, paired, scheduled, app, py>>

(***************************************************************************)
(* Text, tokens and Number()                                               *)
(***************************************************************************)
\* row[k] of a JavaScript array (0-based): undefined past the end
Undefined == "undefined"
Field(row, k) == IF k + 1 <= Len(row) THEN row[k + 1] ELSE Undefined

\* Trim leaving the blanks around a field
TrimNothing(tok) == tok

\* String.prototype.trim on the tokens of the model
Trim(tok) ==
    CASE tok = " " -> ""
      [] tok = " 0" -> "0"
      [] tok = " 1" -> "1"
      [] tok = " 2" -> "2"
      [] tok = " 480" -> "480"
      [] tok = " Header" -> "Header"
      [] tok = " Start_track" -> "Start_track"
      [] tok = " End_track" -> "End_track"
      [] tok = " End_of_file" -> "End_of_file"
      [] tok = " Tempo" -> "Tempo"
      [] tok = " Program_c" -> "Program_c"
      [] tok = " Note_on_c" -> "Note_on_c"
      [] tok = " Note_off_c" -> "Note_off_c"
      [] tok = " 52" -> "52"
      [] tok = " 59" -> "59"
      [] tok = " 81" -> "81"
      [] tok = " 90" -> "90"
      [] tok = " 240" -> "240"
      [] tok = " 500000" -> "500000"
      [] OTHER -> tok

\* line.startsWith("#") on the tokens of the model
StartsWithHash(tok) ==
    tok \in {"#", "# Paste your MIDI CSV here",
             "# Paste your MIDI CSV here (midicsv output style)"}

IntTokens ==
    ("0" :> 0) @@ ("1" :> 1) @@ ("2" :> 2) @@ ("16" :> 16) @@ ("52" :> 52)
        @@ ("9" :> 9) @@ ("59" :> 59)
        @@ ("60" :> 60) @@ ("81" :> 81) @@ ("90" :> 90) @@ ("96" :> 96)
        @@ ("128" :> 128) @@ ("200" :> 200) @@ ("240" :> 240) @@ ("480" :> 480)
        @@ ("40000" :> 40000) @@ ("250000" :> 250000) @@ ("500000" :> 500000)
        @@ ("16777216" :> 16777216) @@ ("268435456" :> 268435456)
        @@ ("-1" :> (0 - 1)) @@ ("-5" :> (0 - 5))

\* Number(x) for a field x: "" is 0, undefined and non-numeric text are NaN
Number(tok) ==
    CASE tok = "" -> Fin(0)
      [] tok = "0.5" -> Half(0)
      [] tok = "127.5" -> Half(127)
      [] tok = "-0.5" -> Half(0 - 1)
      [] tok = "Infinity" -> Infinity
      [] tok \in DOMAIN IntTokens -> Fin(IntTokens[tok])
      [] OTHER -> NaN

RECURSIVE MapTrim(_)
MapTrim(line) ==
    IF line = <<>> THEN <<>>
    ELSE <<Trim(Head(line))>> \o MapTrim(Tail(line))

\* line.trim() is empty: the line holds one field and it is blank
IsBlankLine(line) == Len(line) = 1 /\ Trim(line[1]) = ""

RECURSIVE parseCsvLines(_)
\* midiCsv.ts parseCsvLines: drop blank lines and # comments, split, trim fields
parseCsvLines(t) ==
    IF t = <<>> THEN <<>>
    ELSE LET line == Head(t)
             keep == ~IsBlankLine(line) /\ ~StartsWithHash(Trim(line[1]))
         IN  (IF keep THEN <<MapTrim(line)>> ELSE <<>>) \o parseCsvLines(Tail(t))

(***************************************************************************)
(* midiCsv.ts: parseMidiCsv                                                *)
(***************************************************************************)
DefaultPpq == 480

\* IsHeaderRow without the length test: any Header row ends the loop
IsHeaderRowAnyLength(row) == Field(row, 2) = "Header"

\* row[2] === "Header" && row.length >= 6
IsHeaderRow(row) == Field(row, 2) = "Header" /\ Len(row) >= 6

\* HeaderDivision without the division > 0 test
HeaderDivisionAnyFinite(row) ==
    LET division == Number(Field(row, 5))
    IN  IF IsFinite(division) THEN division ELSE Fin(DefaultPpq)

\* the ppq a Header row leaves: its division when finite and > 0, else the default
HeaderDivision(row) ==
    LET division == Number(Field(row, 5))
    IN  IF IsFinite(division) /\ GtZero(division)
        THEN division
        ELSE Fin(DefaultPpq)

RECURSIVE HeaderPpq(_)
\* the Header loop: the first row that passes the test decides, then break
HeaderPpq(rows) ==
    IF rows = <<>> THEN Fin(DefaultPpq)
    ELSE IF IsHeaderRow(Head(rows))
         THEN HeaderDivision(Head(rows))
         ELSE HeaderPpq(Tail(rows))

\* RowTimed without the test of tick
RowTimedTrackOnly(track, tick) == IsFinite(track)

\* Number.isFinite(track) && Number.isFinite(tick)
RowTimed(track, tick) == IsFinite(track) /\ IsFinite(tick)

\* the body of the events loop for one row: the events it pushes
RowEvents(row) ==
    IF Len(row) < 3 THEN <<>>
    ELSE
    LET track == Number(Field(row, 0))
        tick == Number(Field(row, 1))
        type == Field(row, 2)
    IN  IF ~RowTimed(track, tick) THEN <<>>
        ELSE IF type = "Tempo"
        THEN LET mpqn == Number(Field(row, 3))
             IN  IF IsFinite(mpqn) /\ GtZero(mpqn)
                 THEN <<[track |-> track, tick |-> tick, type |-> "Tempo",
                         mpqn |-> mpqn]>>
                 ELSE <<>>
        ELSE IF type = "Program_c"
        THEN LET channel == Number(Field(row, 3))
                 program == Number(Field(row, 4))
             IN  IF IsFinite(channel) /\ IsFinite(program)
                 THEN <<[track |-> track, tick |-> tick, type |-> "Program_c",
                         channel |-> channel, program |-> program]>>
                 ELSE <<>>
        ELSE IF type = "Note_on_c" \/ type = "Note_off_c"
        THEN LET channel == Number(Field(row, 3))
                 note == Number(Field(row, 4))
                 velocity == Number(Field(row, 5))
             IN  IF IsFinite(channel) /\ IsFinite(note) /\ IsFinite(velocity)
                 THEN <<[track |-> track, tick |-> tick, type |-> type,
                         channel |-> channel, note |-> note,
                         velocity |-> velocity]>>
                 ELSE <<>>
        ELSE <<>>

RECURSIVE AllRowEvents(_)
AllRowEvents(rows) ==
    IF rows = <<>> THEN <<>>
    ELSE RowEvents(Head(rows)) \o AllRowEvents(Tail(rows))

parseMidiCsv(t) ==
    LET rows == parseCsvLines(t)
    IN  [ppq |-> HeaderPpq(rows), events |-> AllRowEvents(rows)]

(***************************************************************************)
(* Sorting.  Array.prototype.sort is stable: an element is inserted after  *)
(* the elements that do not compare greater than it.                       *)
(***************************************************************************)
Front(s) == SubSeq(s, 1, Len(s) - 1)
Last(s) == s[Len(s)]

RECURSIVE InsertByTick(_, _)
InsertByTick(sorted, e) ==
    IF sorted = <<>> THEN <<e>>
    ELSE IF Twice(e.tick) < Twice(Last(sorted).tick)
         THEN Append(InsertByTick(Front(sorted), e), Last(sorted))
         ELSE Append(sorted, e)

RECURSIVE SortByTick(_)
\* .sort((a, b) => a.tick - b.tick) on events with finite ticks
SortByTick(s) ==
    IF s = <<>> THEN <<>>
    ELSE InsertByTick(SortByTick(Front(s)), Last(s))

\* TimedBefore without the tie-break on order
TimedBeforeTickOnly(a, b) == a.tick < b.tick

\* a.tick - b.tick || a.order - b.order is negative
TimedBefore(a, b) == a.tick < b.tick \/ (a.tick = b.tick /\ a.order < b.order)

RECURSIVE InsertTimed(_, _)
InsertTimed(sorted, e) ==
    IF sorted = <<>> THEN <<e>>
    ELSE IF TimedBefore(e, Last(sorted))
         THEN Append(InsertTimed(Front(sorted), e), Last(sorted))
         ELSE Append(sorted, e)

RECURSIVE SortTimed(_)
\* .sort((a, b) => a.tick - b.tick || a.order - b.order)
SortTimed(s) ==
    IF s = <<>> THEN <<>>
    ELSE InsertTimed(SortTimed(Front(s)), Last(s))

RECURSIVE TempoOnly(_)
\* events.filter(type === "Tempo").map((e) => ({ tick: e.tick, mpqn: e.mpqn }))
TempoOnly(events) ==
    IF events = <<>> THEN <<>>
    ELSE (IF Head(events).type = "Tempo"
          THEN <<[tick |-> Head(events).tick, mpqn |-> Head(events).mpqn]>>
          ELSE <<>>) \o TempoOnly(Tail(events))

DefaultMpqn == 500000

(***************************************************************************)
(* midiFile.ts                                                             *)
(***************************************************************************)
u16be(n) == <<(n \div 256) % 256, n % 256>>
u32be(n) == <<(n \div 16777216) % 256, (n \div 65536) % 256, (n \div 256) % 256, n % 256>>

\* ascii(s) for the two chunk types
ascii(s) ==
    CASE s = "MThd" -> <<77, 84, 104, 100>>
      [] s = "MTrk" -> <<77, 84, 114, 107>>

\* makeChunk counting the 8 bytes of type and length in the length field
makeChunkLengthOfChunk(type, data) == ascii(type) \o u32be(Len(data) + 8) \o data

makeChunk(type, data) == ascii(type) \o u32be(Len(data)) \o data

clampByte(n) == Max(0, Min(255, n))

clamp7bit(n) == IF ~IsFinite(n) THEN 0 ELSE Max(0, Min(127, Floor(n)))

RECURSIVE VlqPackLoop(_)
VlqPackLoop(s) == IF s.pc = "pack" THEN VlqPackLoop(VlqPackStep(s)) ELSE s

RECURSIVE VlqUnpackLoop(_)
\* runs the unpack loop to its end; a loop that cannot end is left where
\* it got stuck
VlqUnpackLoop(s) ==
    IF s.pc = "unpack" /\ ~VlqStuck(s) THEN VlqUnpackLoop(VlqUnpackStep(s)) ELSE s

\* encodeVlq(value): [returns |-> TRUE, bytes |-> out], or returns |-> FALSE
\* when the call never returns
encodeVlq(value) ==
    LET s == VlqUnpackLoop(VlqPackLoop(VlqEnter(value)))
    IN  [returns |-> s.pc = "done", bytes |-> s.out]

\* the events of track 0, before the sort of line 144
TempoTimedOf(t, idx) ==
    LET mpqn == Max(1, Floor(t.mpqn))
    IN  [tick |-> Max(0, Floor(t.tick)),
         order |-> idx,
         bytes |-> <<255, 81, 3, (mpqn \div 65536) % 256, (mpqn \div 256) % 256,
                     mpqn % 256>>]

SmfTempoEvents(events) ==
    LET sorted == SortByTick(TempoOnly(events))
    IN  IF sorted = <<>>
        THEN <<[tick |-> Fin(0), mpqn |-> Fin(DefaultMpqn)]>>
        ELSE sorted

tempoTrackTimed(events) ==
    LET te == SmfTempoEvents(events)
    IN  [idx \in 1..Len(te) |-> TempoTimedOf(te[idx], idx - 1)]

\* the status nibble's channel argument: clamp7bit(e.channel)
StatusChannel(e) == clamp7bit(e.channel)

\* the entries one event pushes on channelTimed
ChannelTimedOf(e) ==
    IF e.type = "Program_c"
    THEN <<[tick |-> Max(0, Floor(e.tick)), order |-> 0,
            bytes |-> <<BitOr(192, StatusChannel(e)), clamp7bit(e.program)>>]>>
    ELSE IF e.type = "Note_on_c" \/ e.type = "Note_off_c"
    THEN LET ch == StatusChannel(e)
             note == clamp7bit(e.note)
             vel == clamp7bit(e.velocity)
             isNoteOff == e.type = "Note_off_c" \/ (e.type = "Note_on_c" /\ vel = 0)
         IN  IF isNoteOff
             THEN <<[tick |-> Max(0, Floor(e.tick)), order |-> 1,
                     bytes |-> <<BitOr(128, ch), note, 0>>]>>
             ELSE <<[tick |-> Max(0, Floor(e.tick)), order |-> 2,
                     bytes |-> <<BitOr(144, ch), note, vel>>]>>
    ELSE <<>>

RECURSIVE ChannelTimedAllNotesOnly(_)
\* ChannelTimedAll leaving the ProgramChange events out of track 1
ChannelTimedAllNotesOnly(events) ==
    IF events = <<>> THEN <<>>
    ELSE (IF Head(events).type = "Program_c" THEN <<>> ELSE ChannelTimedOf(Head(events)))
             \o ChannelTimedAllNotesOnly(Tail(events))

RECURSIVE ChannelTimedAll(_)
ChannelTimedAll(events) ==
    IF events = <<>> THEN <<>>
    ELSE ChannelTimedOf(Head(events)) \o ChannelTimedAll(Tail(events))

\* channelTimed after channelTimed.sort(...)
channelTimed(events) == SortTimed(ChannelTimedAll(events))

RECURSIVE MapClampByte(_)
MapClampByte(bytes) ==
    IF bytes = <<>> THEN <<>>
    ELSE <<clampByte(Head(bytes))>> \o MapClampByte(Tail(bytes))

RECURSIVE BuildTrackFromAbsoluteTicks(_, _)
\* BuildTrackFrom writing every event's tick as its delta-time
BuildTrackFromAbsoluteTicks(eventsTimed, lastTick) ==
    IF eventsTimed = <<>> THEN [returns |-> TRUE, bytes |-> <<0, 255, 47, 0>>]
    ELSE LET ev == Head(eventsTimed)
             tick == Max(0, ev.tick)
             dt == encodeVlq(Fin(tick))
             rest == BuildTrackFromAbsoluteTicks(Tail(eventsTimed), tick)
         IN  IF dt.returns /\ rest.returns
             THEN [returns |-> TRUE,
                   bytes |-> dt.bytes \o MapClampByte(ev.bytes) \o rest.bytes]
             ELSE [returns |-> FALSE, bytes |-> <<>>]

RECURSIVE BuildTrackFrom(_, _)
\* the loop of buildTrack from lastTick on, then the end-of-track event
BuildTrackFrom(eventsTimed, lastTick) ==
    IF eventsTimed = <<>> THEN [returns |-> TRUE, bytes |-> <<0, 255, 47, 0>>]
    ELSE LET ev == Head(eventsTimed)
             tick == Max(0, ev.tick)
             delta == tick - lastTick
             dt == encodeVlq(Fin(delta))
             rest == BuildTrackFrom(Tail(eventsTimed), tick)
         IN  IF dt.returns /\ rest.returns
             THEN [returns |-> TRUE,
                   bytes |-> dt.bytes \o MapClampByte(ev.bytes) \o rest.bytes]
             ELSE [returns |-> FALSE, bytes |-> <<>>]

buildTrack(eventsTimed) == BuildTrackFrom(eventsTimed, 0)

\* SmfDivision without the upper clamp
SmfDivisionNoUpperClamp(ppq) == Max(1, Floor(ppq))

\* Math.max(1, Math.min(0x7fff, Math.floor(ppq)))
SmfDivision(ppq) == Max(1, Min(32767, Floor(ppq)))

SmfHeader(ppq) == makeChunk("MThd", u16be(1) \o u16be(2) \o u16be(SmfDivision(ppq)))

midiCsvToMidiFileBytes(t) ==
    LET p == parseMidiCsv(t)
        tt == SortTimed(tempoTrackTimed(p.events))
        ct == channelTimed(p.events)
        tempoTrack == buildTrack(tt)
        channelTrack == buildTrack(ct)
        returns == tempoTrack.returns /\ channelTrack.returns
    IN  [called |-> TRUE,
         returns |-> returns,
         tempoTrackTimed |-> tt,
         channelTimed |-> ct,
         bytes |-> IF returns
                   THEN SmfHeader(p.ppq) \o makeChunk("MTrk", tempoTrack.bytes)
                            \o makeChunk("MTrk", channelTrack.bytes)
                   ELSE <<>>]

(***************************************************************************)
(* midiCsv.ts: buildTempoMap.  Seconds are exact: the integer num held by   *)
(* a map of division ppq stands for num / (4 * 1000000 * ppq) seconds,     *)
(* num being the sum of (2 * ticks) * (2 * mpqn) over the segments         *)
(* crossed.  Floating-point rounding is not modelled.                      *)
(***************************************************************************)
\* dticks * (mpqn / 1_000_000 / ppq), as a numerator
TicksTimesSecPerTick(dticks2, mpqn) == dticks2 * Twice(mpqn)

\* NextSegment accumulating with the new tempo instead of the one that ends
NextSegmentNewTempo(last, t) ==
    [tick |-> t.tick, mpqn |-> t.mpqn,
     accSeconds |-> last.accSeconds
                      + TicksTimesSecPerTick(Twice(t.tick) - Twice(last.tick),
                                             t.mpqn)]

\* the segment pushed for tempo event t, last being the segment before it
NextSegment(last, t) ==
    [tick |-> t.tick, mpqn |-> t.mpqn,
     accSeconds |-> last.accSeconds
                      + TicksTimesSecPerTick(Twice(t.tick) - Twice(last.tick),
                                             last.mpqn)]

RECURSIVE Segments(_, _, _)
\* the loop over tempoEvents[i], i >= 1
Segments(tempoEvents, i, last) ==
    IF i > Len(tempoEvents) THEN <<>>
    ELSE LET seg == NextSegment(last, tempoEvents[i])
         IN  <<seg>> \o Segments(tempoEvents, i + 1, seg)

\* TempoEvents starting an event list without Tempo at 60 BPM
TempoEventsDefaultOneSecond(events) ==
    LET sorted == SortByTick(TempoOnly(events))
    IN  IF sorted = <<>>
        THEN <<[tick |-> Fin(0), mpqn |-> Fin(2 * DefaultMpqn)]>>
        ELSE sorted

TempoEvents(events) ==
    LET sorted == SortByTick(TempoOnly(events))
    IN  IF sorted = <<>>
        THEN <<[tick |-> Fin(0), mpqn |-> Fin(DefaultMpqn)]>>
        ELSE sorted

buildTempoMap(events, ppq) ==
    LET te == TempoEvents(events)
        first == [tick |-> te[1].tick, mpqn |-> te[1].mpqn, accSeconds |-> 0]
    IN  [called |-> TRUE, ppq |-> ppq,
         segments |-> <<first>> \o Segments(te, 2, first)]

RECURSIVE ScanSegmentStopsAtTie(_, _, _, _)
\* ScanSegment not advancing to a segment of the tick it is already at
ScanSegmentStopsAtTie(segments, i, seg, tick) ==
    IF i > Len(segments) THEN seg
    ELSE IF /\ Twice(segments[i].tick) <= Twice(tick)
            /\ segments[i].tick # seg.tick
         THEN ScanSegmentStopsAtTie(segments, i + 1, segments[i], tick)
         ELSE seg

RECURSIVE ScanSegment(_, _, _, _)
\* the scan of ticksToSeconds: advance while segments[i].tick <= tick
ScanSegment(segments, i, seg, tick) ==
    IF i > Len(segments) THEN seg
    ELSE IF Twice(segments[i].tick) <= Twice(tick)
         THEN ScanSegment(segments, i + 1, segments[i], tick)
         ELSE seg

\* ticksToSeconds(tick) of the map m, as a numerator over 4 * 1000000 * m.ppq
ticksToSeconds(m, tick) ==
    LET seg == ScanSegment(m.segments, 2, m.segments[1], tick)
    IN  seg.accSeconds
            + TicksTimesSecPerTick(Twice(tick) - Twice(seg.tick), seg.mpqn)

(***************************************************************************)
(* midiCsv.ts: pairNotes.  onStacks is the Map from a key to the stack of  *)
(* the Note-Ons open on it, a function whose domain is the set of keys     *)
(* ever set.  A velocity in [0, 1] is held as its numerator over 2 * 127.  *)
(***************************************************************************)
RECURSIVE NoteEventsOnly(_)
\* events.filter(e => e.type === "Note_on_c" || e.type === "Note_off_c")
NoteEventsOnly(events) ==
    IF events = <<>> THEN <<>>
    ELSE (IF Head(events).type = "Note_on_c" \/ Head(events).type = "Note_off_c"
          THEN <<Head(events)>>
          ELSE <<>>) \o NoteEventsOnly(Tail(events))

\* `${e.channel}:${e.note}`
keyFor(e) == <<e.channel, e.note>>

isNoteOn(e) == e.type = "Note_on_c" /\ GtZero(e.velocity)

isNoteOff(e) ==
    e.type = "Note_off_c" \/ (e.type = "Note_on_c" /\ e.velocity = Fin(0))

\* onStacks.get(key) ?? []
StackOf(onStacks, key) == IF key \in DOMAIN onStacks THEN onStacks[key] ELSE <<>>

\* onStacks.set(key, stack)
MapSet(onStacks, key, stack) ==
    [k \in DOMAIN onStacks \cup {key} |-> IF k = key THEN stack ELSE onStacks[k]]

\* ClampVelocity without Math.min(1, ...)
ClampVelocityFloorOnly(velocity) == Max(0, Twice(velocity))

\* Math.min(1, Math.max(0, on.velocity / 127)), as a numerator over 2 * 127
ClampVelocity(velocity) == Min(2 * 127, Max(0, Twice(velocity)))

\* PairStep making a note of a close event that finds no open Note-On
PairStepOrphanNote(st, e) ==
    LET key == keyFor(e)
        stack == StackOf(st.onStacks, key)
    IN  IF isNoteOn(e)
        THEN [st EXCEPT !.onStacks = MapSet(@, key, Append(stack, e))]
        ELSE IF isNoteOff(e)
        THEN LET on == IF stack = <<>> THEN e ELSE Last(stack)
             IN  [onStacks |-> MapSet(st.onStacks, key,
                                      IF stack = <<>> THEN <<>> ELSE Front(stack)),
                  notes |-> Append(st.notes,
                                   [channel |-> e.channel, note |-> e.note,
                                    startTick |-> on.tick, endTick |-> e.tick,
                                    velocity |-> ClampVelocity(on.velocity)])]
        ELSE st

\* PairStep closing the Note-On that was opened first (stack.shift())
PairStepFirstOpened(st, e) ==
    LET key == keyFor(e)
    IN  IF isNoteOn(e)
        THEN [st EXCEPT !.onStacks =
                            MapSet(@, key, Append(StackOf(@, key), e))]
        ELSE IF isNoteOff(e)
        THEN IF key \notin DOMAIN st.onStacks \/ st.onStacks[key] = <<>>
             THEN st
             ELSE LET stack == st.onStacks[key]
                      on == Head(stack)
                  IN  [onStacks |-> MapSet(st.onStacks, key, Tail(stack)),
                       notes |-> Append(st.notes,
                                        [channel |-> e.channel, note |-> e.note,
                                         startTick |-> on.tick, endTick |-> e.tick,
                                         velocity |-> ClampVelocity(on.velocity)])]
        ELSE st

\* the body of the loop over sorted for one event e, st = [onStacks, notes]
\* PairStep closing a note without taking its Note-On off the stack
PairStepKeepsOpen(st, e) ==
    LET key == keyFor(e)
    IN  IF isNoteOn(e)
        THEN [st EXCEPT !.onStacks =
                            MapSet(@, key, Append(StackOf(@, key), e))]
        ELSE IF isNoteOff(e)
        THEN IF key \notin DOMAIN st.onStacks \/ st.onStacks[key] = <<>>
             THEN st
             ELSE LET stack == st.onStacks[key]
                      on == Last(stack)
                  IN  [onStacks |-> st.onStacks,
                       notes |-> Append(st.notes,
                                        [channel |-> e.channel, note |-> e.note,
                                         startTick |-> on.tick, endTick |-> e.tick,
                                         velocity |-> ClampVelocity(on.velocity)])]
        ELSE st

PairStep(st, e) ==
    LET key == keyFor(e)
    IN  IF isNoteOn(e)
        THEN [st EXCEPT !.onStacks =
                            MapSet(@, key, Append(StackOf(@, key), e))]
        ELSE IF isNoteOff(e)
        THEN IF key \notin DOMAIN st.onStacks \/ st.onStacks[key] = <<>>
             THEN st
             ELSE LET stack == st.onStacks[key]
                      on == Last(stack)
                  IN  [onStacks |-> MapSet(st.onStacks, key, Front(stack)),
                       notes |-> Append(st.notes,
                                        [channel |-> e.channel, note |-> e.note,
                                         startTick |-> on.tick, endTick |-> e.tick,
                                         velocity |-> ClampVelocity(on.velocity)])]
        ELSE st

\* the note events in the order of the loop
PairSorted(events) == SortByTick(NoteEventsOnly(events))

RECURSIVE PairLoop(_, _, _)
\* for (const e of sorted), from sorted[i] on
PairLoop(sorted, i, st) ==
    IF i > Len(sorted) THEN st
    ELSE PairLoop(sorted, i + 1, PairStep(st, sorted[i]))

\* the result, with the stacks as the loop leaves them
pairNotes(events) ==
    LET st == PairLoop(PairSorted(events), 1, [onStacks |-> <<>>, notes |-> <<>>])
    IN  [called |-> TRUE, notes |-> st.notes, onStacks |-> st.onStacks]

(***************************************************************************)
(* midiCsv.ts: midiNoteNumberToName and notesToSchedule.  time and         *)
(* duration are numerators over 4 * 1000000 * ppq, like ticksToSeconds.    *)
(***************************************************************************)
names == <<"C", "C#", "D", "D#", "E", "F", "F#", "G", "G#", "A", "A#", "B">>

\* `${name}${octave}` as the pair of its parts; names[x] of a non-integer x
\* is undefined
midiNoteNumberToName(n) ==
    [name |-> IF n.h = 0 THEN names[(n.i % 12) + 1] ELSE Undefined,
     octave |-> (Floor(n) \div 12) - 1]

\* 0.01 seconds as a numerator over 4 * 1000000 * ppq
MinDuration(ppq) == 20000 * Twice(ppq)

\* ScheduleNote without Math.max(0.01, ...)
ScheduleNoteNoFloor(n, m) ==
    LET time == ticksToSeconds(m, n.startTick)
        endTime == ticksToSeconds(m, n.endTick)
    IN  [time |-> time, duration |-> endTime - time,
         name |-> midiNoteNumberToName(n.note),
         velocity |-> n.velocity, channel |-> n.channel]

\* the callback of notes.map
ScheduleNote(n, m) ==
    LET time == ticksToSeconds(m, n.startTick)
        endTime == ticksToSeconds(m, n.endTick)
    IN  [time |-> time, duration |-> Max(MinDuration(m.ppq), endTime - time),
         name |-> midiNoteNumberToName(n.note),
         velocity |-> n.velocity, channel |-> n.channel]

RECURSIVE InsertByTimeBeforeEqual(_, _)
\* InsertByTime placing an element before the elements of equal time
InsertByTimeBeforeEqual(sorted, x) ==
    IF sorted = <<>> THEN <<x>>
    ELSE IF x.time <= Last(sorted).time
         THEN Append(InsertByTimeBeforeEqual(Front(sorted), x), Last(sorted))
         ELSE Append(sorted, x)

RECURSIVE InsertByTime(_, _)
InsertByTime(sorted, x) ==
    IF sorted = <<>> THEN <<x>>
    ELSE IF x.time < Last(sorted).time
         THEN Append(InsertByTime(Front(sorted), x), Last(sorted))
         ELSE Append(sorted, x)

RECURSIVE SortByTime(_)
\* .sort((a, b) => a.time - b.time)
SortByTime(s) ==
    IF s = <<>> THEN <<>>
    ELSE InsertByTime(SortByTime(Front(s)), Last(s))

(***************************************************************************)
(* The program of a note.  App.tsx calls buildProgramChangeMap(events) and *)
(* hands its result to notesToSchedule, which attaches a program to every  *)
(* scheduled note: for channel c the program at tick t is the program of   *)
(* the latest ProgramChange on c with tick <= t, and 0 when there is none. *)
(***************************************************************************)
RECURSIVE ProgramChangesOnly(_)
ProgramChangesOnly(events) ==
    IF events = <<>> THEN <<>>
    ELSE (IF Head(events).type = "Program_c" THEN <<Head(events)>> ELSE <<>>)
             \o ProgramChangesOnly(Tail(events))

\* the program changes in ascending tick order
buildProgramChangeMap(events) == SortByTick(ProgramChangesOnly(events))

RECURSIVE ProgramAtAnyChannel(_, _, _)
\* ProgramAt taking the latest program change of any channel
ProgramAtAnyChannel(programMap, channel, tick) ==
    IF programMap = <<>> THEN Fin(0)
    ELSE LET pc == Last(programMap)
         IN  IF Twice(pc.tick) <= Twice(tick)
             THEN pc.program
             ELSE ProgramAtAnyChannel(Front(programMap), channel, tick)

RECURSIVE ProgramAt(_, _, _)
\* the program of the latest change on channel with tick <= the given tick
ProgramAt(programMap, channel, tick) ==
    IF programMap = <<>> THEN Fin(0)
    ELSE LET pc == Last(programMap)
         IN  IF pc.channel = channel /\ Twice(pc.tick) <= Twice(tick)
             THEN pc.program
             ELSE ProgramAt(Front(programMap), channel, tick)

RECURSIVE MapSchedule(_, _, _)
\* notes.map(...): ScheduleNote and the program at the note's start tick
MapSchedule(notes, m, programMap) ==
    IF notes = <<>> THEN <<>>
    ELSE <<ScheduleNote(Head(notes), m)
             @@ [program |-> ProgramAt(programMap, Head(notes).channel,
                                       Head(notes).startTick)]>>
             \o MapSchedule(Tail(notes), m, programMap)

notesToSchedule(notes, m, programMap) ==
    [called |-> TRUE, notes |-> SortByTime(MapSchedule(notes, m, programMap))]

(***************************************************************************)
(* App.tsx: the App component                                              *)
(***************************************************************************)
Null == "null"

\* partRef.current and stopEventIdRef.current when null; ids start at 1
NoId == 0

\* gm.ts
GM_DRUM_CHANNEL == 9

GM_PROGRAM_TO_SOUNDFONT_NAME ==
    <<"acoustic_grand_piano", "bright_acoustic_piano",
      "electric_grand_piano", "honkytonk_piano", "electric_piano_1",
      "electric_piano_2", "harpsichord", "clavinet", "celesta",
      "glockenspiel", "music_box", "vibraphone", "marimba", "xylophone",
      "tubular_bells", "dulcimer", "drawbar_organ", "percussive_organ",
      "rock_organ", "church_organ", "reed_organ", "accordion", "harmonica",
      "tango_accordion", "acoustic_guitar_nylon", "acoustic_guitar_steel",
      "electric_guitar_jazz", "electric_guitar_clean",
      "electric_guitar_muted", "overdriven_guitar", "distortion_guitar",
      "guitar_harmonics", "acoustic_bass", "electric_bass_finger",
      "electric_bass_pick", "fretless_bass", "slap_bass_1", "slap_bass_2",
      "synth_bass_1", "synth_bass_2", "violin", "viola", "cello",
      "contrabass", "tremolo_strings", "pizzicato_strings",
      "orchestral_harp", "timpani", "string_ensemble_1", "string_ensemble_2",
      "synth_strings_1", "synth_strings_2", "choir_aahs", "voice_oohs",
      "synth_choir", "orchestra_hit", "trumpet", "trombone", "tuba",
      "muted_trumpet", "french_horn", "brass_section", "synth_brass_1",
      "synth_brass_2", "soprano_sax", "alto_sax", "tenor_sax",
      "baritone_sax", "oboe", "english_horn", "bassoon", "clarinet",
      "piccolo", "flute", "recorder", "pan_flute", "blown_bottle",
      "shakuhachi", "whistle", "ocarina", "lead_1_square", "lead_2_sawtooth",
      "lead_3_calliope", "lead_4_chiff", "lead_5_charang", "lead_6_voice",
      "lead_7_fifths", "lead_8_bass__lead", "pad_1_new_age", "pad_2_warm",
      "pad_3_polysynth", "pad_4_choir", "pad_5_bowed", "pad_6_metallic",
      "pad_7_halo", "pad_8_sweep", "fx_1_rain", "fx_2_soundtrack",
      "fx_3_crystal", "fx_4_atmosphere", "fx_5_brightness", "fx_6_goblins",
      "fx_7_echoes", "fx_8_scifi", "sitar", "banjo", "shamisen", "koto",
      "kalimba", "bagpipe", "fiddle", "shanai", "tinkle_bell", "agogo",
      "steel_drums", "woodblock", "taiko_drum", "melodic_tom", "synth_drum",
      "reverse_cymbal", "guitar_fret_noise", "breath_noise", "seashore",
      "bird_tweet", "telephone_ring", "helicopter", "applause", "gunshot">>

\* Math.trunc of a finite number
Trunc(x) == IF x.i >= 0 THEN x.i ELSE x.i + x.h

\* gmProgramToSoundfontName clamping the index into the table
gmProgramToSoundfontNameClamped(program) ==
    IF ~IsFinite(program) THEN "acoustic_grand_piano"
    ELSE GM_PROGRAM_TO_SOUNDFONT_NAME[
             Min(Len(GM_PROGRAM_TO_SOUNDFONT_NAME), Max(1, Trunc(program) + 1))]

gmProgramToSoundfontName(program) ==
    IF /\ IsFinite(program)
       /\ Trunc(program) >= 0
       /\ Trunc(program) < Len(GM_PROGRAM_TO_SOUNDFONT_NAME)
    THEN GM_PROGRAM_TO_SOUNDFONT_NAME[Trunc(program) + 1]
    ELSE "acoustic_grand_piano"

gmDrumInstrumentName == "synth_drum"

(***************************************************************************)
(* The Pyodide runner: the module variables hooksInstalled, active*Sink    *)
(* and active*Decoder, and the calls of runPythonAndCaptureStdout.  A sink *)
(* or decoder is named by the id of the call that created it.  A chunk is  *)
(* <<id, k>>, the k-th write of the Python run of call id; chunks are      *)
(* whole characters, so that a decoder holds no pending bytes.             *)
(***************************************************************************)
MaxRuns == 2
MaxChunks == 2

\* a call: pc is "getPyodide" (at await getPyodide()), "runPythonAsync" (at
\* await pyodide.runPythonAsync(code)) or "returned"; stdout and stderr are
\* its local variables; wroteOut and wroteErr are what its run has written
PyCall ==
    [pc |-> "getPyodide", stdout |-> <<>>, stderr |-> <<>>,
     wroteOut |-> <<>>, wroteErr |-> <<>>]

PyodideModule ==
    [pyodidePromise |-> FALSE,
     hooksInstalled |-> FALSE,
     activeStdoutSink |-> NoId,
     activeStderrSink |-> NoId,
     activeStdoutDecoder |-> NoId,
     activeStderrDecoder |-> NoId,
     calls |-> <<>>]

\* getPyodide() up to its await: the promise is created once
getPyodide(p) == [p EXCEPT !.pyodidePromise = TRUE]

ensureStdIoHooks(p) == [p EXCEPT !.hooksInstalled = TRUE]

\* the write hook given to pyodide.setStdout: activeStdoutSink?.(decoded)
StdoutHook(p, chunk) ==
    IF p.activeStdoutSink = NoId THEN p
    ELSE [p EXCEPT !.calls[p.activeStdoutSink].stdout = Append(@, chunk)]

\* the write hook given to pyodide.setStderr: activeStderrSink?.(decoded)
StderrHook(p, chunk) ==
    IF p.activeStderrSink = NoId THEN p
    ELSE [p EXCEPT !.calls[p.activeStderrSink].stderr = Append(@, chunk)]

\* runPythonAndCaptureStdout from its start to the await of getPyodide()
runPythonAndCaptureStdout(p) ==
    [getPyodide(p) EXCEPT !.calls = Append(@, PyCall)]

\* call id from the end of that await to the await of runPythonAsync
runPythonAndCaptureStdoutRun(p, id) ==
    [ensureStdIoHooks(p) EXCEPT
         !.calls[id] = [@ EXCEPT !.pc = "runPythonAsync", !.stdout = <<>>, !.stderr = <<>>],
         !.activeStdoutDecoder = id,
         !.activeStderrDecoder = id,
         !.activeStdoutSink = id,
         !.activeStderrSink = id]

\* the finally block of call id, and its return
runPythonAndCaptureStdoutFinally(p, id) ==
    [p EXCEPT !.calls[id].pc = "returned",
              !.activeStdoutSink = NoId,
              !.activeStderrSink = NoId,
              !.activeStdoutDecoder = NoId,
              !.activeStderrDecoder = NoId]

\* the next chunk the run of call id writes
NextChunk(p, id) == <<id, Len(p.calls[id].wroteOut) + Len(p.calls[id].wroteErr) + 1>>

\* the component after its first render.  parts are the Tone.Part objects
\* not disposed of, transport is Tone.Transport with the ids of the stop
\* callbacks scheduled on it, calls are the playFromCsv calls suspended at an
\* await, played holds the last trigger of a Tone.Part callback.
AppMounted ==
    [status |-> "Idle",
     partRef |-> NoId,
     stopEventIdRef |-> NoId,
     transport |-> [state |-> "stopped", events |-> {}],
     parts |-> {},
     calls |-> {},
     clicks |-> 0,
     played |-> <<>>]

\* stopPlayback(nextStatus) on the component state a
stopPlayback(a, nextStatus) ==
    [a EXCEPT !.transport = [state |-> "stopped", events |-> {}],
              !.stopEventIdRef = NoId,
              !.parts = {p \in a.parts : p.id # a.partRef},
              !.partRef = NoId,
              !.status = nextStatus]

\* the instrument names playFromCsv loads for a schedule
RequiredInstrumentNames(sched) ==
    {IF sched[i].channel = Fin(GM_DRUM_CHANNEL)
     THEN gmDrumInstrumentName
     ELSE gmProgramToSoundfontName(sched[i].program) : i \in DOMAIN sched}

\* playFromCsv going on to load instruments when pairing yields no note
playFromCsvNoEarlyReturn(a, c) ==
    LET stopped == stopPlayback([a EXCEPT !.status = "Parsing"], "Stopped")
        p == parseMidiCsv(c.text)
        tm == buildTempoMap(p.events, p.ppq)
        notes == pairNotes(p.events).notes
        programMap == buildProgramChangeMap(p.events)
    IN  [stopped EXCEPT
             !.status = "Loading instruments",
             !.calls = (a.calls \ {c})
                 \cup {[id |-> c.id, pc |-> "loading", text |-> c.text,
                        scheduled |-> notesToSchedule(notes, tm, programMap).notes]}]

\* playFromCsv from its start to its first await, or to its return; c is
\* the call, suspended at the await of Tone.start() in the click handler
playFromCsv(a, c) ==
    LET stopped == stopPlayback([a EXCEPT !.status = "Parsing"], "Stopped")
        p == parseMidiCsv(c.text)
        tm == buildTempoMap(p.events, p.ppq)
        notes == pairNotes(p.events).notes
        programMap == buildProgramChangeMap(p.events)
    IN  IF Len(notes) = 0
        THEN [stopped EXCEPT !.status = "No notes found.",
                             !.calls = a.calls \ {c}]
        ELSE [stopped EXCEPT
                  !.status = "Loading instruments",
                  !.calls = (a.calls \ {c})
                      \cup {[id |-> c.id, pc |-> "loading", text |-> c.text,
                             scheduled |-> notesToSchedule(notes, tm, programMap).notes]}]

\* playFromCsv from the end of its awaits of getOrLoadInstrument to its end
playFromCsvResume(a, c) ==
    [a EXCEPT !.parts = @ \cup {[id |-> c.id, values |-> c.scheduled,
                                 instruments |-> RequiredInstrumentNames(c.scheduled)]},
              !.partRef = c.id,
              !.status = "Playing",
              !.transport = [state |-> "started", events |-> @.events \cup {c.id}],
              !.stopEventIdRef = c.id,
              !.calls = @ \ {c}]

\* the callback of Tone.Part choosing the program's instrument on every channel
PartCallbackProgramOnly(part, value) ==
    LET instrumentName == gmProgramToSoundfontName(value.program)
    IN  [value |-> value,
         instrument |-> IF instrumentName \in part.instruments
                        THEN instrumentName ELSE Null]

\* the callback of Tone.Part for one value: the instrument it plays, Null
\* when instruments.get(instrumentName) is undefined
PartCallback(part, value) ==
    LET instrumentName == IF value.channel = Fin(GM_DRUM_CHANNEL)
                          THEN gmDrumInstrumentName
                          ELSE gmProgramToSoundfontName(value.program)
    IN  [value |-> value,
         instrument |-> IF instrumentName \in part.instruments
                        THEN instrumentName ELSE Null]

(***************************************************************************)
(* The texts the functions are applied to                                  *)
(***************************************************************************)
SeqsUpTo(S, n) == UNION {[1..k -> S] : k \in 0..n}

\* blank lines, comments, rows of other types, Header rows, malformed rows
ParseLines ==
    {<<" ">>, <<"# Paste your MIDI CSV here">>, <<"x">>, <<"1", "0", "Start_track">>,
     <<"0", "0", "Header">>, <<"0", " 0", " Header", " 1", " 2", " 480">>,
     <<"x", "x", "Header", "1", "2", "240">>,
     <<"1", "0", "Tempo">>, <<"1", "0", "Tempo", "500000">>,
     <<"1", "x", "Tempo", "500000">>, <<"1", "0", "Tempo", "0.5">>,
     <<"1", "0", "Tempo", "16777216">>,
     <<"2", "0", "Program_c", "0">>, <<"2", "0", "Program_c", "0", "81">>,
     <<"2", "-5", "Note_on_c", "16", "128", "200">>,
     <<"2", "0", "Note_off_c", "0", "60">>,
     <<"2", "", "Note_on_c", "0", "60", "">>,
     <<"2", "0", "Note_on_c", "0", "60", "-1">>,
     <<"2", "0", "Note_on_c", "0", "60", "0.5">>,
     <<"2", "Infinity", "Note_on_c", "0", "60", "90">>,
     <<"x", "0", "Note_off_c", "0", "60", "0">>}
        \cup {<<"0", "0", "Header", "1", "2", d>> : d \in {"0", "x", "0.5", "40000", "96"}}
        \cup {<<"1", "0", "Tempo", m>> : m \in {"0", "x", "-5"}}

\* channel events: two ticks, every kind, out-of-range fields, a far tick
EventLines ==
    {<<"2", t, "Program_c", "0", "81">> : t \in {"0", "240"}}
        \cup {<<"2", t, ty, "0", "52", "90">> :
                t \in {"0", "240"}, ty \in {"Note_on_c", "Note_off_c"}}
        \cup {<<"2", "240", "Note_on_c", "0", "52", "0">>,
              <<"2", "240", "Program_c", "16", "200">>,
              <<"2", "0", "Note_off_c", "16", "128", "200">>,
              <<"2", "-5", "Note_on_c", "-1", "52", "200">>,
              <<"2", "0.5", "Program_c", "200", "-1">>,
              <<"2", "268435456", "Note_on_c", "0", "52", "90">>}

\* tempo events in any order, with equal ticks, and a Header
TempoLines ==
    {<<"1", t, "Tempo", m>> : t \in {"0", "240", "-5"}, m \in {"500000", "250000"}}
        \cup {<<"1", "0.5", "Tempo", "0.5">>, <<"0", "0", "Header", "1", "2", "96">>}

\* one key opened and closed in every way, from a negative tick too, a
\* close of another key, and a change of tempo
NoteLines ==
    {<<"1", "240", "Tempo", "250000">>,
     <<"2", "-5", "Note_on_c", "0", "52", "90">>,
     <<"2", "0", "Note_on_c", "0", "52", "90">>,
     <<"2", "240", "Note_on_c", "0", "52", "200">>,
     <<"2", "240", "Note_on_c", "0", "52", "0">>,
     <<"2", "240", "Note_off_c", "0", "52", "0">>,
     <<"2", "480", "Note_off_c", "0", "52", "0">>,
     <<"2", "240", "Note_off_c", "0", "59", "0">>}

\* a note on channel 0, program changes of channel 0 before, at and after
\* its start tick, and one of channel 9
ProgramLines ==
    {<<"2", "240", "Note_on_c", "0", "52", "90">>,
     <<"2", "480", "Note_off_c", "0", "52", "0">>,
     <<"2", "0", "Program_c", "0", "81">>,
     <<"2", "240", "Program_c", "0", "200">>,
     <<"2", "480", "Program_c", "0", "1">>,
     <<"2", "0", "Program_c", "9", "81">>}

\* App.tsx DEFAULT_CSV
DEFAULT_CSV ==
    <<(<<"# Paste your MIDI CSV here (midicsv output style)">>),
      (<<"0", " 0", " Header", " 1", " 2", " 480">>),
      (<<"1", " 0", " Start_track">>),
      (<<"1", " 0", " Tempo", " 500000">>),
      (<<"1", " 0", " End_track">>),
      (<<"2", " 0", " Start_track">>),
      (<<"2", " 0", " Program_c", " 0", " 81">>),
      (<<"2", " 0", " Note_on_c", " 0", " 52", " 90">>),
      (<<"2", " 240", " Note_off_c", " 0", " 52", " 0">>),
      (<<"2", " 240", " Note_on_c", " 0", " 59", " 90">>),
      (<<"2", " 480", " Note_off_c", " 0", " 59", " 0">>),
      (<<"2", " 480", " End_track">>),
      (<<"0", " 0", " End_of_file">>)>>

\* the texts of the textarea: the default, texts without a paired note, and a
\* program change followed by a note on the same channel
AppTexts ==
    {DEFAULT_CSV,
     <<(<<"2", "0", "Note_on_c", "0", "52", "90">>)>>,
     <<(<<"2", "240", "Note_off_c", "0", "52", "0">>)>>,
     <<(<<"2", "0", "Program_c", "9", "81">>),
       (<<"2", "240", "Note_on_c", "9", "52", "90">>),
       (<<"2", "480", "Note_off_c", "9", "52", "0">>)>>}
        \cup {<<(<<"2", "0", "Program_c", "0", p>>),
                (<<"2", "240", "Note_on_c", "0", "52", "90">>),
                (<<"2", "480", "Note_off_c", "0", "52", "0">>)>> :
                  p \in {"200", "-1", "127.5", "-0.5"}}

Texts ==
    SeqsUpTo(ParseLines, MaxParseLines) \cup SeqsUpTo(EventLines, MaxEventLines)
        \cup SeqsUpTo(TempoLines, MaxTempoLines)

\* the texts that are paired and scheduled
ScheduleTexts ==
    SeqsUpTo(NoteLines, MaxNoteLines) \cup SeqsUpTo(ProgramLines, MaxProgramLines)
        \cup {DEFAULT_CSV}

(***************************************************************************)
(* The operations                                                          *)
(***************************************************************************)
ParseMidiCsv ==
    /\ ~parsed.called
    /\ parsed' = [called |-> TRUE] @@ parseMidiCsv(text)
    /\ UNCHANGED <<text, tempoMap, smf, vlq, paired, scheduled, app, py>>

\* the tempo events whose seconds the model's integers hold
TempoInRange(events) ==
    \A i \in DOMAIN events :
        events[i].type = "Tempo" =>
            /\ Floor(events[i].mpqn) <= MaxTempoMpqn
            /\ Floor(events[i].tick) <= MaxTempoTick
            /\ 0 - Floor(events[i].tick) <= MaxTempoTick

BuildTempoMap ==
    /\ parsed.called
    /\ ~tempoMap.called
    /\ TempoInRange(parsed.events)
    /\ tempoMap' = buildTempoMap(parsed.events, parsed.ppq)
    /\ UNCHANGED <<text, parsed, smf, vlq, paired, scheduled, app, py>>

PairNotes ==
    /\ parsed.called
    /\ ~paired.called
    /\ paired' = pairNotes(parsed.events)
    /\ UNCHANGED <<text, parsed, tempoMap, smf, vlq, scheduled, app, py>>

\* the note ticks whose seconds the model's integers hold
NotesInRange(notes) ==
    \A i \in DOMAIN notes :
        \A tick \in {notes[i].startTick, notes[i].endTick} :
            /\ Floor(tick) <= MaxTempoTick
            /\ 0 - Floor(tick) <= MaxTempoTick

NotesToSchedule ==
    /\ tempoMap.called
    /\ paired.called
    /\ ~scheduled.called
    /\ NotesInRange(paired.notes)
    /\ scheduled' = notesToSchedule(paired.notes, tempoMap,
                                    buildProgramChangeMap(parsed.events))
    /\ UNCHANGED <<text, parsed, tempoMap, smf, vlq, paired, app, py>>

\* the textarea's onChange
SetCsvText ==
    /\ \E t \in AppTexts : t # text /\ text' = t
    /\ UNCHANGED <<parsed, tempoMap, smf, vlq, paired, scheduled, app, py>>

\* a click on "Play MIDI", up to the await of Tone.start()
PlayClick ==
    /\ app.clicks < MaxPlays
    /\ parseCsvLines(text) # <<>> \/ \E i \in DOMAIN text : StartsWithHash(Trim(text[i][1]))
    /\ app' = [app EXCEPT !.clicks = @ + 1,
                          !.calls = @ \cup {[id |-> app.clicks + 1, pc |-> "start",
                                             text |-> text, scheduled |-> <<>>]}]
    /\ UNCHANGED <<text, parsed, tempoMap, smf, vlq, paired, scheduled, py>>

PlayFromCsv ==
    /\ \E c \in app.calls : c.pc = "start" /\ app' = playFromCsv(app, c)
    /\ UNCHANGED <<text, parsed, tempoMap, smf, vlq, paired, scheduled, py>>

PlayFromCsvResume ==
    /\ \E c \in app.calls : c.pc = "loading" /\ app' = playFromCsvResume(app, c)
    /\ UNCHANGED <<text, parsed, tempoMap, smf, vlq, paired, scheduled, py>>

\* an await of getOrLoadInstrument rejects: the catch of the click handler
InstrumentLoadFails ==
    /\ \E c \in app.calls :
           /\ c.pc = "loading"
           /\ app' = [app EXCEPT !.status = "Error", !.calls = @ \ {c}]
    /\ UNCHANGED <<text, parsed, tempoMap, smf, vlq, paired, scheduled, py>>

\* a click on "Stop"
StopClick ==
    /\ app' = stopPlayback(app, "Stopped")
    /\ app' # app
    /\ UNCHANGED <<text, parsed, tempoMap, smf, vlq, paired, scheduled, py>>

\* the callback scheduled with Tone.Transport.scheduleOnce
StopEventFires ==
    /\ app.transport.state = "started"
    /\ app.transport.events # {}
    /\ app' = stopPlayback(app, "Done")
    /\ UNCHANGED <<text, parsed, tempoMap, smf, vlq, paired, scheduled, py>>

\* the running transport reaches a value of a Tone.Part
PartFires ==
    /\ app.transport.state = "started"
    /\ \E part \in app.parts : \E i \in DOMAIN part.values :
           app' = [app EXCEPT !.played = <<PartCallback(part, part.values[i])>>]
    /\ app' # app
    /\ UNCHANGED <<text, parsed, tempoMap, smf, vlq, paired, scheduled, py>>

\* a call of runPythonAndCaptureStdout, up to its first await
RunPythonAndCaptureStdout ==
    /\ Len(py.calls) < MaxRuns
    /\ py' = runPythonAndCaptureStdout(py)
    /\ UNCHANGED <<text, parsed, tempoMap, smf, vlq, paired, scheduled, app>>

\* the promise of getPyodide() resolves for a call: it starts its Python run
RunPythonAsync ==
    /\ \E id \in DOMAIN py.calls :
           /\ py.calls[id].pc = "getPyodide"
           /\ py' = runPythonAndCaptureStdoutRun(py, id)
    /\ UNCHANGED <<text, parsed, tempoMap, smf, vlq, paired, scheduled, app>>

\* a Python run, between two of its awaits, writes a chunk to stdout
PythonWritesStdout ==
    /\ \E id \in DOMAIN py.calls :
           /\ py.calls[id].pc = "runPythonAsync"
           /\ Len(py.calls[id].wroteOut) + Len(py.calls[id].wroteErr) < MaxChunks
           /\ py' = [StdoutHook(py, NextChunk(py, id)) EXCEPT
                         !.calls[id].wroteOut = Append(@, NextChunk(py, id))]
    /\ UNCHANGED <<text, parsed, tempoMap, smf, vlq, paired, scheduled, app>>

\* a Python run writes a chunk to stderr
PythonWritesStderr ==
    /\ \E id \in DOMAIN py.calls :
           /\ py.calls[id].pc = "runPythonAsync"
           /\ Len(py.calls[id].wroteOut) + Len(py.calls[id].wroteErr) < MaxChunks
           /\ py' = [StderrHook(py, NextChunk(py, id)) EXCEPT
                         !.calls[id].wroteErr = Append(@, NextChunk(py, id))]
    /\ UNCHANGED <<text, parsed, tempoMap, smf, vlq, paired, scheduled, app>>

\* the Python run of a call ends or raises: its finally block and its return
RunPythonFinally ==
    /\ \E id \in DOMAIN py.calls :
           /\ py.calls[id].pc = "runPythonAsync"
           /\ py' = runPythonAndCaptureStdoutFinally(py, id)
    /\ UNCHANGED <<text, parsed, tempoMap, smf, vlq, paired, scheduled, app>>

MidiCsvToMidiFileBytes ==
    /\ ~smf.called
    /\ smf' = midiCsvToMidiFileBytes(text)
    /\ UNCHANGED <<text, parsed, tempoMap, vlq, paired, scheduled, app, py>>

Init ==
    /\ text \in Texts
    /\ parsed = NotCalled
    /\ tempoMap = NotCalled
    /\ smf = NotCalled
    /\ vlq = VlqIdle
    /\ paired = NotCalled
    /\ scheduled = NotCalled
    /\ app = AppMounted
    /\ py = PyodideModule

Next == ParseMidiCsv \/ BuildTempoMap \/ MidiCsvToMidiFileBytes

Spec == Init /\ [][Next]_vars

InitVlq ==
    /\ text = <<>>
    /\ parsed = NotCalled
    /\ tempoMap = NotCalled
    /\ smf = NotCalled
    /\ vlq = VlqIdle
    /\ paired = NotCalled
    /\ scheduled = NotCalled
    /\ app = AppMounted
    /\ py = PyodideModule

InitSchedule ==
    /\ text \in ScheduleTexts
    /\ parsed = NotCalled
    /\ tempoMap = NotCalled
    /\ smf = NotCalled
    /\ vlq = VlqIdle
    /\ paired = NotCalled
    /\ scheduled = NotCalled
    /\ app = AppMounted
    /\ py = PyodideModule

NextSchedule == ParseMidiCsv \/ BuildTempoMap \/ PairNotes \/ NotesToSchedule

SpecSchedule == InitSchedule /\ [][NextSchedule]_vars

InitApp ==
    /\ text = DEFAULT_CSV
    /\ parsed = NotCalled
    /\ tempoMap = NotCalled
    /\ smf = NotCalled
    /\ vlq = VlqIdle
    /\ paired = NotCalled
    /\ scheduled = NotCalled
    /\ app = AppMounted
    /\ py = PyodideModule

NextApp ==
    \/ SetCsvText
    \/ PlayClick
    \/ PlayFromCsv
    \/ PlayFromCsvResume
    \/ InstrumentLoadFails
    \/ StopClick
    \/ StopEventFires
    \/ PartFires

SpecApp == InitApp /\ [][NextApp]_vars

NextVlq == EncodeVlqCall \/ EncodeVlqPack \/ EncodeVlqUnpack

SpecVlq == InitVlq /\ [][NextVlq]_vars

(***************************************************************************)
(* Decoder and helpers used to state the properties                        *)
(***************************************************************************)
RECURSIVE DecodeVlqFrom(_, _)
\* the standard MIDI variable-length-quantity decoder: seven bits per byte,
\* most significant group first, the last byte being the first one with a
\* clear high bit; -1 when the bytes are not exactly one quantity
DecodeVlqFrom(bytes, acc) ==
    IF bytes = <<>> THEN 0 - 1
    ELSE LET b == Head(bytes)
             next == acc * 128 + (b % 128)
         IN  IF b >= 128 THEN DecodeVlqFrom(Tail(bytes), next)
             ELSE IF Tail(bytes) = <<>> THEN next ELSE 0 - 1

DecodeVlq(bytes) == DecodeVlqFrom(bytes, 0)

Rows == parseCsvLines(text)

\* the status nibble of each kind of channel message
TypeNibble(order) == CASE order = 0 -> 12 [] order = 1 -> 8 [] order = 2 -> 9

(***************************************************************************)
(* C1: midiCsvToMidiFileBytes returns for every text; in particular        *)
(* encodeVlq finishes for every tick and gap, also at 2^28 or more: its    *)
(* unpack loop never reaches a state from which it cannot end.             *)
(* Fails: from 2^28 on the fifth group shifts the buffer's last byte out,  *)
(* the buffer is negative, and buffer >>= 8 ends at -1 for ever.           *)
(***************************************************************************)
C1_EncodeVlqFinishes == ~VlqStuck(vlq)

(***************************************************************************)
(* C2: every channel message written to track 1 has a status byte whose    *)
(* high nibble is the message type of its event (0xC, 0x8, 0x9) and whose  *)
(* low nibble is a channel in 0..15, and data bytes in 0..127.             *)
(* Fails: a channel of 16 or more is or-ed into the type nibble.           *)
(***************************************************************************)
C2_StatusKeepsMessageType ==
    (smf.called /\ smf.returns) =>
        \A i \in DOMAIN smf.channelTimed :
            LET m == smf.channelTimed[i]
                written == MapClampByte(m.bytes)
            IN  /\ written[1] \div 16 = TypeNibble(m.order)
                /\ written[1] % 16 \in 0..15
                /\ \A k \in 2..Len(written) : written[k] \in 0..127

(***************************************************************************)
(* C3: for every integer v in [0, 2^28 - 1] the standard decoder returns v *)
(* from encodeVlq(v); the encoding has 1 to 4 bytes, the high bit set on   *)
(* every byte but the last; encodeVlq(0) is the single byte 0.             *)
(***************************************************************************)
C3_VlqRoundTrip ==
    (/\ vlq.pc = "done"
     /\ vlq.value.h = 0
     /\ vlq.value.i \in 0..268435455) =>
        /\ DecodeVlq(vlq.out) = vlq.value.i
        /\ Len(vlq.out) \in 1..4
        /\ \A k \in 1..Len(vlq.out) : (vlq.out[k] >= 128) <=> (k < Len(vlq.out))
        /\ vlq.value.i = 0 => vlq.out = <<0>>

C3_Witness ==
    /\ vlq.pc = "done"
    /\ vlq.value = Fin(268435455)
    /\ vlq.out = <<255, 255, 255, 127>>

(***************************************************************************)
(* C4: track 1 holds the channel events in ascending tick order, and at    *)
(* equal tick program changes before note-offs before note-ons, whatever   *)
(* the order of the rows; none is lost.                                    *)
(***************************************************************************)
C4_Track1Ordered ==
    (smf.called /\ smf.returns) =>
        LET ct == smf.channelTimed
        IN  /\ Len(ct) = Len(ChannelTimedAll(parseMidiCsv(text).events))
            /\ \A i, j \in DOMAIN ct :
                   i < j => /\ ct[i].tick <= ct[j].tick
                            /\ ct[i].tick = ct[j].tick => ct[i].order <= ct[j].order

\* a Note-On row placed before the Note-Off row of the same key and tick,
\* and a Program_c row after both: written program, off, on
C4_Witness ==
    /\ smf.called /\ smf.returns
    /\ text = <<(<<"2", "240", "Note_on_c", "0", "52", "90">>),
                (<<"2", "240", "Note_off_c", "0", "52", "90">>),
                (<<"2", "240", "Program_c", "0", "81">>)>>
    /\ smf.channelTimed[1].bytes = <<192, 81>>
    /\ smf.channelTimed[2].bytes = <<128, 52, 0>>
    /\ smf.channelTimed[3].bytes = <<144, 52, 90>>

(***************************************************************************)
(* C5: the first 14 bytes returned are "MThd", length 6, format 1, two     *)
(* tracks, and the parsed PPQ clamped into [1, 32767] as the division.     *)
(***************************************************************************)
C5_HeaderChunk ==
    (smf.called /\ smf.returns) =>
        LET ppq == parseMidiCsv(text).ppq
            division == IF Floor(ppq) < 1 THEN 1
                        ELSE IF Floor(ppq) > 32767 THEN 32767 ELSE Floor(ppq)
        IN  /\ Len(smf.bytes) >= 14
            /\ SubSeq(smf.bytes, 1, 12) = <<77, 84, 104, 100, 0, 0, 0, 6, 0, 1, 0, 2>>
            /\ smf.bytes[13] * 256 + smf.bytes[14] = division
            /\ smf.bytes[13] \in 0..255 /\ smf.bytes[14] \in 0..255

\* a division above 32767 is written as 0x7FFF
C5_Witness ==
    /\ smf.called /\ smf.returns
    /\ parseMidiCsv(text).ppq = Fin(40000)
    /\ SubSeq(smf.bytes, 13, 14) = <<127, 255>>

(***************************************************************************)
(* C6: every Tempo event of track 0 is written as FF 51 03 and three bytes *)
(* whose big-endian value is max(1, floor(mpqn)), never 0.                 *)
(* Fails: only the low 24 bits of mpqn are written.                        *)
(***************************************************************************)
C6_TempoPayload ==
    (smf.called /\ smf.returns) =>
        LET te == SmfTempoEvents(parseMidiCsv(text).events)
        IN  \A i \in DOMAIN smf.tempoTrackTimed :
                LET m == smf.tempoTrackTimed[i]
                    b == MapClampByte(m.bytes)
                    value == b[4] * 65536 + b[5] * 256 + b[6]
                IN  /\ SubSeq(b, 1, 3) = <<255, 81, 3>>
                    /\ value # 0
                    /\ value = Max(1, Floor(te[m.order + 1].mpqn))

(***************************************************************************)
(* C7: parseMidiCsv returns a (ppq, events) result for every text; for     *)
(* the empty text and for a text without any valid Header, Tempo,          *)
(* Program_c, Note_on_c or Note_off_c row it is (480, no events).          *)
(***************************************************************************)
\* a row of the grammar: the named type with every field it needs
IsValidRow(row) ==
    LET num(k) == Number(Field(row, k))
        timed == IsFinite(num(0)) /\ IsFinite(num(1))
        type == Field(row, 2)
    IN  \/ type = "Header" /\ Len(row) >= 6 /\ IsFinite(num(5)) /\ GtZero(num(5))
        \/ type = "Tempo" /\ timed /\ IsFinite(num(3)) /\ GtZero(num(3))
        \/ type = "Program_c" /\ timed /\ IsFinite(num(3)) /\ IsFinite(num(4))
        \/ /\ type \in {"Note_on_c", "Note_off_c"}
           /\ timed /\ IsFinite(num(3)) /\ IsFinite(num(4)) /\ IsFinite(num(5))

C7_ParseTotal ==
    parsed.called =>
        /\ IsFinite(parsed.ppq)
        /\ DOMAIN parsed.events = 1..Len(parsed.events)
        /\ (\A i \in DOMAIN Rows : ~IsValidRow(Rows[i])) =>
               parsed.ppq = Fin(480) /\ parsed.events = <<>>

\* two rows, none valid: a Tempo of 0 and a Header whose division is no number
C7_Witness ==
    /\ parsed.called
    /\ text = <<(<<"1", "0", "Tempo", "0">>), (<<"0", "0", "Header", "1", "2", "x">>)>>
    /\ parsed.ppq = Fin(480)
    /\ parsed.events = <<>>

(***************************************************************************)
(* C8: the PPQ is decided by the first row whose third field is Header,    *)
(* and by that row alone: its field[5] when it has 6 fields and the field  *)
(* is finite and > 0, else 480.                                            *)
(* Fails: a Header row of fewer than 6 fields does not end the search.     *)
(***************************************************************************)
MinOf(S) == CHOOSE i \in S : \A j \in S : i <= j

\* the ppq the row at index i stands for
DivisionOrDefault(row) ==
    LET d == Number(Field(row, 5))
    IN  IF Len(row) >= 6 /\ IsFinite(d) /\ GtZero(d) THEN d ELSE Fin(480)

C8_FirstHeaderRowDecides ==
    parsed.called =>
        LET H == {i \in DOMAIN Rows : Field(Rows[i], 2) = "Header"}
        IN  parsed.ppq = IF H = {} THEN Fin(480) ELSE DivisionOrDefault(Rows[MinOf(H)])

(***************************************************************************)
(* C8 as amended: the PPQ is decided by the first row whose third field is *)
(* Header and that has at least 6 fields, and by that row alone: its       *)
(* field[5] when finite and > 0, else 480; Header rows of fewer than 6     *)
(* fields are passed over, and no Header row after the deciding one        *)
(* changes the PPQ.                                                        *)
(***************************************************************************)
C8_FirstFullHeaderRowDecides ==
    parsed.called =>
        LET H == {i \in DOMAIN Rows : Field(Rows[i], 2) = "Header" /\ Len(Rows[i]) >= 6}
        IN  parsed.ppq = IF H = {} THEN Fin(480) ELSE DivisionOrDefault(Rows[MinOf(H)])

\* a short Header row followed by a full one: the second decides
C8_Witness ==
    /\ parsed.called
    /\ text = <<(<<"0", "0", "Header">>), (<<"0", "0", "Header", "1", "2", "96">>)>>
    /\ parsed.ppq = Fin(96)

(***************************************************************************)
(* C9: every event returned by parseMidiCsv has a non-negative integer     *)
(* tick, a channel in [0,15] and note, velocity and program in [0,127].    *)
(* Fails: the parser tests the fields for finiteness only.                 *)
(***************************************************************************)
Within(x, lo, hi) ==
    IsFinite(x) /\ lo <= x.i /\ (x.i < hi \/ (x.i = hi /\ x.h = 0))

C9_EventsInRange ==
    parsed.called =>
        \A i \in DOMAIN parsed.events :
            LET e == parsed.events[i]
            IN  /\ IsFinite(e.tick) /\ e.tick.h = 0 /\ e.tick.i >= 0
                /\ e.type = "Program_c" =>
                       Within(e.channel, 0, 15) /\ Within(e.program, 0, 127)
                /\ e.type \in {"Note_on_c", "Note_off_c"} =>
                       /\ Within(e.channel, 0, 15)
                       /\ Within(e.note, 0, 127)
                       /\ Within(e.velocity, 0, 127)

(***************************************************************************)
(* C9 as amended: every event returned by parseMidiCsv has a finite track  *)
(* and tick, and finite channel, note, velocity and program fields (a      *)
(* Tempo event a finite mpqn > 0); the values are not range-checked, so a  *)
(* row with out-of-range fields produces an event carrying them.           *)
(***************************************************************************)
C9_EventsFinite ==
    parsed.called =>
        \A i \in DOMAIN parsed.events :
            LET e == parsed.events[i]
            IN  /\ IsFinite(e.track) /\ IsFinite(e.tick)
                /\ e.type \in {"Tempo", "Program_c", "Note_on_c", "Note_off_c"}
                /\ e.type = "Tempo" => IsFinite(e.mpqn) /\ GtZero(e.mpqn)
                /\ e.type = "Program_c" => IsFinite(e.channel) /\ IsFinite(e.program)
                /\ e.type \in {"Note_on_c", "Note_off_c"} =>
                       IsFinite(e.channel) /\ IsFinite(e.note) /\ IsFinite(e.velocity)

\* the row 2, -5, Note_on_c, 16, 128, 200 is returned as it stands
C9_Witness ==
    /\ parsed.called
    /\ \E i \in DOMAIN parsed.events :
           parsed.events[i] =
               [track |-> Fin(2), tick |-> Fin(0 - 5), type |-> "Note_on_c",
                channel |-> Fin(16), note |-> Fin(128), velocity |-> Fin(200)]

(***************************************************************************)
(* C10: with every mpqn > 0 and ppq > 0, ticksToSeconds is non-decreasing  *)
(* in tick, and continuous at every segment boundary: the left segment     *)
(* extended to the boundary tick gives the right segment's accumulated     *)
(* seconds, which is also the value of ticksToSeconds at that tick.        *)
(***************************************************************************)
TickProbes ==
    {Fin(t) : t \in {0 - 6, 0 - 5, 0, 1, 239, 240, 241, 480}} \cup {Half(0), Half(239)}

C10_TempoMonotoneContinuous ==
    tempoMap.called =>
        LET segs == tempoMap.segments
        IN  /\ GtZero(tempoMap.ppq)
            /\ \A t1, t2 \in TickProbes :
                   Twice(t1) <= Twice(t2) =>
                       ticksToSeconds(tempoMap, t1) <= ticksToSeconds(tempoMap, t2)
            /\ \A i \in 2..Len(segs) :
                   LET left == segs[i - 1]
                       extended == left.accSeconds
                                     + (Twice(segs[i].tick) - Twice(left.tick))
                                           * Twice(left.mpqn)
                   IN  /\ extended = segs[i].accSeconds
                       /\ ticksToSeconds(tempoMap, segs[i].tick) = extended

\* three tempo rows out of tick order, the tempo changing at ticks 0 and 240
C10_Witness ==
    /\ tempoMap.called
    /\ text = <<(<<"1", "240", "Tempo", "250000">>), (<<"1", "-5", "Tempo", "500000">>),
                (<<"1", "0", "Tempo", "250000">>)>>
    /\ Len(tempoMap.segments) = 3
    /\ tempoMap.segments[2].accSeconds = 10 * 1000000
    /\ tempoMap.segments[3].accSeconds = 10 * 1000000 + 480 * 500000

(***************************************************************************)
(* C11: when the event list holds no Tempo event, the tempo map is the one *)
(* of a single tempo of 500000 microseconds per quarter starting at tick   *)
(* 0: ticksToSeconds(t) = t * 500000 / 1000000 / ppq for every tick t,     *)
(* that is the numerator (2 * t) * (2 * 500000) over 4 * 1000000 * ppq.    *)
(***************************************************************************)
C11_DefaultTempo ==
    (tempoMap.called /\ TempoOnly(parsed.events) = <<>>) =>
        /\ tempoMap.ppq = parsed.ppq
        /\ Len(tempoMap.segments) = 1
        /\ \A t \in TickProbes :
               ticksToSeconds(tempoMap, t) = Twice(t) * (2 * 500000)

\* two note rows and no Tempo row: ppq 480, and tick 240 is 0.25 seconds,
\* 480000000 / (4 * 1000000 * 480)
C11_Witness ==
    /\ tempoMap.called
    /\ text = <<(<<"2", "0", "Note_on_c", "0", "52", "90">>),
                (<<"2", "240", "Note_off_c", "0", "52", "90">>)>>
    /\ tempoMap.ppq = Fin(480)
    /\ ticksToSeconds(tempoMap, Fin(240)) = 480000000

(***************************************************************************)
(* C12: every note returned by pairNotes has endTick >= startTick and a    *)
(* velocity in [0, 1] that is the velocity of an opening Note-On of its    *)
(* key and start tick divided by 127 and clamped to [0, 1] (velocities     *)
(* are numerators over 2 * 127).                                           *)
(***************************************************************************)
C12_PairedNoteShape ==
    paired.called =>
        \A i \in DOMAIN paired.notes :
            LET n == paired.notes[i]
            IN  /\ Twice(n.endTick) >= Twice(n.startTick)
                /\ n.velocity \in 0..254
                /\ \E k \in DOMAIN parsed.events :
                       LET on == parsed.events[k]
                       IN  /\ on.type = "Note_on_c"
                           /\ GtZero(on.velocity)
                           /\ on.channel = n.channel /\ on.note = n.note
                           /\ on.tick = n.startTick
                           /\ n.velocity = IF Twice(on.velocity) >= 254 THEN 254
                                           ELSE Twice(on.velocity)

\* a Note-On of velocity 200 and the Note-Off that closes it, the
\* Note-Off row first: one note of velocity 1
C12_Witness ==
    /\ paired.called
    /\ text = <<(<<"2", "480", "Note_off_c", "0", "52", "0">>),
                (<<"2", "240", "Note_on_c", "0", "52", "200">>)>>
    /\ Len(paired.notes) = 1
    /\ paired.notes[1].velocity = 254
    /\ paired.notes[1].startTick = Fin(240)
    /\ paired.notes[1].endTick = Fin(480)

(***************************************************************************)
(* C13: only matched open/close pairs produce notes.  A close event        *)
(* (Note-Off, or Note-On of velocity 0) that finds no open Note-On of its  *)
(* (channel, note) leaves the notes and every stack as they were; every    *)
(* other close event adds exactly one note and takes one Note-On off its   *)
(* own key; a Note-On adds no note; and the Note-Ons still open when the   *)
(* stream ends are in no note.                                             *)
(***************************************************************************)
RECURSIVE OpenDepth(_, _, _)
\* how many Note-Ons of key are open after the first k events of sorted
OpenDepth(sorted, k, key) ==
    IF k = 0 THEN 0
    ELSE LET e == sorted[k]
             before == OpenDepth(sorted, k - 1, key)
         IN  IF keyFor(e) # key THEN before
             ELSE IF isNoteOn(e) THEN before + 1
             ELSE IF isNoteOff(e) /\ before > 0 THEN before - 1
             ELSE before

\* the state of pairNotes after the first k events of sorted
PairStateAfter(sorted, k) ==
    PairLoop(SubSeq(sorted, 1, k), 1, [onStacks |-> <<>>, notes |-> <<>>])

RECURSIVE SumOpen(_, _)
SumOpen(onStacks, keys) ==
    IF keys = {} THEN 0
    ELSE LET key == CHOOSE x \in keys : TRUE
         IN  Len(onStacks[key]) + SumOpen(onStacks, keys \ {key})

C13_OnlyMatchedPairs ==
    paired.called =>
        LET sorted == PairSorted(parsed.events)
            keys == {keyFor(sorted[k]) : k \in DOMAIN sorted}
            opens == {k \in DOMAIN sorted : isNoteOn(sorted[k])}
        IN  /\ \A k \in DOMAIN sorted :
                   LET e == sorted[k]
                       before == PairStateAfter(sorted, k - 1)
                       after == PairStateAfter(sorted, k)
                       orphan == /\ isNoteOff(e)
                                 /\ OpenDepth(sorted, k - 1, keyFor(e)) = 0
                   IN  /\ orphan => after = before
                       /\ (isNoteOff(e) /\ ~orphan) =>
                              /\ Len(after.notes) = Len(before.notes) + 1
                              /\ SubSeq(after.notes, 1, Len(before.notes)) = before.notes
                       /\ ~isNoteOff(e) => after.notes = before.notes
                       /\ \A key \in keys :
                              Len(StackOf(after.onStacks, key)) = OpenDepth(sorted, k, key)
            /\ paired.notes = PairStateAfter(sorted, Len(sorted)).notes
            /\ Len(paired.notes) + SumOpen(paired.onStacks, DOMAIN paired.onStacks)
                   = Cardinality(opens)

\* a Note-On that is never closed and a Note-Off of another key: no note,
\* the Note-On still on its stack, no stack for the other key
C13_Witness ==
    /\ paired.called
    /\ text = <<(<<"2", "0", "Note_on_c", "0", "52", "90">>),
                (<<"2", "240", "Note_off_c", "0", "59", "0">>)>>
    /\ paired.notes = <<>>
    /\ DOMAIN paired.onStacks = {<<Fin(0), Fin(52)>>}
    /\ Len(paired.onStacks[<<Fin(0), Fin(52)>>]) = 1

(***************************************************************************)
(* C14: the list returned by notesToSchedule is ascending in start time,   *)
(* and it is the paired-note list rearranged so that notes of equal start  *)
(* time keep the order they had in the paired-note list.                   *)
(***************************************************************************)
\* where the i-th paired note is in the schedule: after the notes that start
\* earlier, and after the notes of the same start time that precede it
StablePosition(notes, m, i) ==
    LET start(j) == ticksToSeconds(m, notes[j].startTick)
    IN  1 + Cardinality({j \in DOMAIN notes :
                            \/ start(j) < start(i)
                            \/ start(j) = start(i) /\ j < i})

C14_ScheduleSortedStable ==
    scheduled.called =>
        LET s == scheduled.notes
            notes == paired.notes
        IN  /\ Len(s) = Len(notes)
            /\ \A i, j \in DOMAIN s : i < j => s[i].time <= s[j].time
            /\ \A i \in DOMAIN notes :
                   LET x == s[StablePosition(notes, tempoMap, i)]
                   IN  /\ x.time = ticksToSeconds(tempoMap, notes[i].startTick)
                       /\ x.time + x.duration
                              >= ticksToSeconds(tempoMap, notes[i].endTick)
                       /\ x.velocity = notes[i].velocity
                       /\ x.channel = notes[i].channel

\* a note opened at tick 240 and closed before the one opened at tick 0:
\* second in the schedule
C14_WitnessReordered ==
    /\ scheduled.called
    /\ Len(paired.notes) = 2
    /\ paired.notes[1].startTick = Fin(240)
    /\ paired.notes[2].startTick = Fin(0)
    /\ scheduled.notes[1].time = 0
    /\ scheduled.notes[2].time > 0

\* two notes of equal start time and different ends, in the paired order
C14_Witness ==
    /\ scheduled.called
    /\ Len(paired.notes) = 2
    /\ paired.notes[1].startTick = paired.notes[2].startTick
    /\ paired.notes[1].endTick = Fin(240)
    /\ paired.notes[2].endTick = Fin(480)
    /\ scheduled.notes[1].duration < scheduled.notes[2].duration

(***************************************************************************)
(* C15: every scheduled note has duration = max(0.01, ticksToSeconds(      *)
(* endTick) - ticksToSeconds(startTick)), hence at least 0.01 seconds,     *)
(* also when its start and end ticks are equal.  Over 4 * 1000000 * ppq,   *)
(* 0.01 seconds is the numerator 40000 * ppq.                              *)
(***************************************************************************)
C15_DurationFloor ==
    scheduled.called =>
        LET hundredth == 20000 * Twice(tempoMap.ppq)
        IN  /\ \A k \in DOMAIN scheduled.notes :
                   scheduled.notes[k].duration >= hundredth
            /\ \A i \in DOMAIN paired.notes :
                   LET n == paired.notes[i]
                       x == scheduled.notes[StablePosition(paired.notes, tempoMap, i)]
                       span == ticksToSeconds(tempoMap, n.endTick)
                                 - ticksToSeconds(tempoMap, n.startTick)
                   IN  x.duration = IF span > hundredth THEN span ELSE hundredth

\* a note opened and closed at tick 240: 0.01 seconds at ppq 480
C15_Witness ==
    /\ scheduled.called
    /\ text = <<(<<"2", "240", "Note_on_c", "0", "52", "200">>),
                (<<"2", "240", "Note_off_c", "0", "52", "0">>)>>
    /\ Len(scheduled.notes) = 1
    /\ paired.notes[1].startTick = paired.notes[1].endTick
    /\ scheduled.notes[1].duration = 40000 * 480

(***************************************************************************)
(* C18: the program of each scheduled note is the program of the latest    *)
(* ProgramChange on the note's channel whose tick is <= the note's start   *)
(* tick (one of them when several share that tick), and 0 when no          *)
(* ProgramChange on that channel precedes the note.                        *)
(***************************************************************************)
C18_ProgramOfNote ==
    scheduled.called =>
        \A i \in DOMAIN paired.notes :
            LET n == paired.notes[i]
                x == scheduled.notes[StablePosition(paired.notes, tempoMap, i)]
                ev == parsed.events
                before == {k \in DOMAIN ev :
                              /\ ev[k].type = "Program_c"
                              /\ ev[k].channel = n.channel
                              /\ Twice(ev[k].tick) <= Twice(n.startTick)}
                latest == {k \in before :
                              \A j \in before : Twice(ev[j].tick) <= Twice(ev[k].tick)}
            IN  IF before = {} THEN x.program = Fin(0)
                ELSE x.program \in {ev[k].program : k \in latest}

\* program changes on channel 0 at ticks 240 and 0, rows in that order, and
\* a note starting at tick 240: the program of tick 240
C18_Witness ==
    /\ scheduled.called
    /\ text = <<(<<"2", "240", "Program_c", "0", "200">>),
                (<<"2", "0", "Program_c", "0", "81">>),
                (<<"2", "240", "Note_on_c", "0", "52", "90">>),
                (<<"2", "480", "Note_off_c", "0", "52", "0">>)>>
    /\ Len(scheduled.notes) = 1
    /\ scheduled.notes[1].program = Fin(200)

(***************************************************************************)
(* C20: for the reference input (DEFAULT_CSV: division 480, Tempo 500000   *)
(* at tick 0, Program_c 81 on channel 0, note 52 on at 0 and off at 240,   *)
(* note 59 on at 240 and off at 480) pairNotes yields exactly two notes,   *)
(* 52 over ticks [0, 240) and 59 over [240, 480), scheduled at 0.0 s and   *)
(* 0.25 s with durations of 0.25 s each.  Over 4 * 1000000 * 480, a        *)
(* quarter of a second is the numerator 480000000.                         *)
(***************************************************************************)
C20_ReferenceInput ==
    text = DEFAULT_CSV =>
        /\ parsed.called => parsed.ppq = Fin(480)
        /\ paired.called =>
               /\ Len(paired.notes) = 2
               /\ paired.notes[1].note = Fin(52)
               /\ paired.notes[1].startTick = Fin(0)
               /\ paired.notes[1].endTick = Fin(240)
               /\ paired.notes[2].note = Fin(59)
               /\ paired.notes[2].startTick = Fin(240)
               /\ paired.notes[2].endTick = Fin(480)
        /\ scheduled.called =>
               /\ Len(scheduled.notes) = 2
               /\ scheduled.notes[1].name = [name |-> "E", octave |-> 3]
               /\ scheduled.notes[1].time = 0
               /\ scheduled.notes[1].duration = 480000000
               /\ scheduled.notes[2].name = [name |-> "B", octave |-> 3]
               /\ scheduled.notes[2].time = 480000000
               /\ scheduled.notes[2].duration = 480000000

C20_Witness ==
    /\ text = DEFAULT_CSV
    /\ scheduled.called
    /\ tempoMap.ppq = Fin(480)
    /\ Len(tempoMap.segments) = 1
    /\ tempoMap.segments[1].mpqn = Fin(500000)
    /\ Len(scheduled.notes) = 2

(***************************************************************************)
(* C16: a value of a Tone.Part on channel index 9 is played with the drum  *)
(* instrument (gmDrumInstrumentName), whatever program it carries; a value *)
(* on any other channel is played with the instrument of its program.      *)
(***************************************************************************)
C16_DrumChannel ==
    app.played # <<>> =>
        LET value == app.played[1].value
            instrument == app.played[1].instrument
        IN  IF value.channel = Fin(9)
            THEN instrument = "synth_drum"
            ELSE instrument = gmProgramToSoundfontName(value.program)

\* a note of channel 9 after a program change to 81 on channel 9
C16_Witness ==
    /\ app.played # <<>>
    /\ app.played[1].value.channel = Fin(9)
    /\ app.played[1].value.program = Fin(81)
    /\ app.played[1].instrument = "synth_drum"

(***************************************************************************)
(* C17: a program lookup never fails and gives a General MIDI instrument   *)
(* name: the p-th name for an integer p in [0, 127], and for a program     *)
(* outside [0, 127] the name of the nearest valid index (the program       *)
(* clamped into [0, 127]).                                                 *)
(* Fails: nothing is clamped; program 200 gives acoustic_grand_piano, the  *)
(* name of program 0, not the name of program 127.                         *)
(***************************************************************************)
GmNames == {GM_PROGRAM_TO_SOUNDFONT_NAME[k] : k \in DOMAIN GM_PROGRAM_TO_SOUNDFONT_NAME}

C17_ClampsToNearestIndex ==
    (app.played # <<>> /\ app.played[1].value.channel # Fin(9)) =>
        LET program == app.played[1].value.program
            instrument == app.played[1].instrument
            nearest == IF Twice(program) < 0 THEN 0
                       ELSE IF Twice(program) > 2 * 127 THEN 127
                       ELSE Floor(program)
        IN  /\ instrument \in GmNames
            /\ instrument = GM_PROGRAM_TO_SOUNDFONT_NAME[nearest + 1]

(***************************************************************************)
(* C17 (amended): a program lookup never fails and gives a General MIDI    *)
(* instrument name.  The program is truncated toward zero; an index in     *)
(* [0, 127] gives the name at that index, so an integer p in [0, 127]      *)
(* gives the p-th name; any other index gives acoustic_grand_piano, the    *)
(* name of program 0.                                                      *)
(***************************************************************************)
C17_ProgramLookup ==
    (app.played # <<>> /\ app.played[1].value.channel # Fin(9)) =>
        LET program == app.played[1].value.program
            instrument == app.played[1].instrument
            \* program truncated toward zero, over 2
            inRange == Twice(program) > 0 - 2 /\ Twice(program) < 2 * 128
        IN  /\ instrument \in GmNames
            /\ GM_PROGRAM_TO_SOUNDFONT_NAME[1] = "acoustic_grand_piano"
            /\ (program.h = 0 /\ program.i \in 0..127) =>
                   instrument = GM_PROGRAM_TO_SOUNDFONT_NAME[program.i + 1]
            /\ (program.h = 1 /\ inRange) =>
                   instrument = GM_PROGRAM_TO_SOUNDFONT_NAME[
                                    (IF program.i < 0 THEN 0 ELSE program.i) + 1]
            /\ ~inRange => instrument = "acoustic_grand_piano"

\* a note of channel 0 under program 200
C17_Witness ==
    /\ app.played # <<>>
    /\ app.played[1].value.channel = Fin(0)
    /\ app.played[1].value.program = Fin(200)
    /\ app.played[1].instrument = "acoustic_grand_piano"

(***************************************************************************)
(* C19: when pairing yields zero notes, playFromCsv ends with the status   *)
(* "No notes found.", creates no Tone.Part, schedules no stop event and    *)
(* leaves the transport stopped.                                           *)
(***************************************************************************)
C19_NoNotesFound ==
    [][\A c \in app.calls :
           (/\ c.pc = "start"
            /\ c \notin app'.calls
            /\ Len(pairNotes(parseMidiCsv(c.text).events).notes) = 0) =>
               /\ app'.status = "No notes found."
               /\ \A d \in app'.calls : d.id # c.id
               /\ app'.parts \subseteq app.parts
               /\ app'.partRef = NoId
               /\ app'.stopEventIdRef = NoId
               /\ app'.transport = [state |-> "stopped", events |-> {}]]_vars

\* a lone Note-On played: the call is over, nothing is scheduled
C19_Witness ==
    /\ text = <<(<<"2", "0", "Note_on_c", "0", "52", "90">>)>>
    /\ app.clicks = 1
    /\ app.calls = {}
    /\ app.status = "No notes found."
    /\ app.parts = {}
    /\ app.transport.state = "stopped"

(***************************************************************************)
(* C21: a close event is paired with the most recently opened, still-open  *)
(* Note-On of its (channel, note): the note it adds starts at the tick and *)
(* has the velocity of the last Note-On of the key before it that no close *)
(* event in between has taken.  For same-pitch notes opened at ticks       *)
(* a < b and closed at c <= d the notes are [b, c) and [a, d).             *)
(***************************************************************************)
\* the Note-On a close event at position k of sorted matches, as brackets
\* match: the last Note-On of the key after which the count of open Note-Ons
\* is the count just before k and never falls below it in between
MatchingOpen(sorted, k) ==
    LET key == keyFor(sorted[k])
        depth == OpenDepth(sorted, k - 1, key)
    IN  CHOOSE j \in 1..(k - 1) :
            /\ keyFor(sorted[j]) = key
            /\ isNoteOn(sorted[j])
            /\ OpenDepth(sorted, j, key) = depth
            /\ \A m \in j..(k - 1) : OpenDepth(sorted, m, key) >= depth
            /\ \A i \in (j + 1)..(k - 1) :
                   ~(/\ keyFor(sorted[i]) = key
                     /\ isNoteOn(sorted[i])
                     /\ OpenDepth(sorted, i, key) = depth
                     /\ \A m \in i..(k - 1) : OpenDepth(sorted, m, key) >= depth)

C21_LastOpenedFirstClosed ==
    paired.called =>
        LET sorted == PairSorted(parsed.events)
        IN  \A k \in DOMAIN sorted :
                LET e == sorted[k]
                    after == PairStateAfter(sorted, k)
                IN  (isNoteOff(e) /\ OpenDepth(sorted, k - 1, keyFor(e)) > 0) =>
                        LET on == sorted[MatchingOpen(sorted, k)]
                            n == Last(after.notes)
                        IN  /\ n.startTick = on.tick
                            /\ n.endTick = e.tick
                            /\ n.velocity = ClampVelocity(on.velocity)

\* Note-Ons at ticks 0 and 240, the second of velocity 200, closed at 240
\* and at 480: the notes are [240, 240) of velocity 1 and [0, 480)
C21_Witness ==
    /\ paired.called
    /\ text = <<(<<"2", "0", "Note_on_c", "0", "52", "90">>),
                (<<"2", "240", "Note_on_c", "0", "52", "200">>),
                (<<"2", "240", "Note_off_c", "0", "52", "0">>),
                (<<"2", "480", "Note_off_c", "0", "52", "0">>)>>
    /\ Len(paired.notes) = 2
    /\ paired.notes[1].startTick = Fin(240) /\ paired.notes[1].endTick = Fin(240)
    /\ paired.notes[1].velocity = 254
    /\ paired.notes[2].startTick = Fin(0) /\ paired.notes[2].endTick = Fin(480)
    /\ paired.notes[2].velocity = 180

(***************************************************************************)
(* C22: the segments are the Tempo events in stable tick-sorted order, and *)
(* for every tick t at or after the first segment's tick ticksToSeconds(t) *)
(* is accumulatedSeconds + (t - startTick) * mpqn / 1000000 / ppq of the   *)
(* last segment whose start tick is <= t: the scan of the code picks that  *)
(* segment; of several Tempo events sharing a tick the last one in input   *)
(* order gives the tempo from that tick on.                                *)
(***************************************************************************)
\* the Tempo events of the parsed text, in input order
InputTempos == TempoOnly(parsed.events)

\* where the k-th Tempo event is in the stable tick-sorted order
TempoPosition(k) ==
    1 + Cardinality({j \in DOMAIN InputTempos :
                        \/ Twice(InputTempos[j].tick) < Twice(InputTempos[k].tick)
                        \/ InputTempos[j].tick = InputTempos[k].tick /\ j < k})

C26_SecondsNonNegative ==
    (/\ tempoMap.called
     /\ \A k \in DOMAIN InputTempos : Twice(InputTempos[k].tick) >= 0) =>
        /\ ticksToSeconds(tempoMap, Fin(0)) = 0
        /\ \A t \in TickProbes : Twice(t) >= 0 => ticksToSeconds(tempoMap, t) >= 0

(***************************************************************************)
(* Reading the file back: the chunks after the 14 header bytes, and the    *)
(* delta-times of a track whose events have known lengths                  *)
(***************************************************************************)
\* the 4-byte big-endian number at bytes[at .. at + 3]
U32At(bytes, at) ==
    ((bytes[at] * 256 + bytes[at + 1]) * 256 + bytes[at + 2]) * 256 + bytes[at + 3]

\* the chunk that starts at bytes[at]: its type, its length field and the
\* bytes after the length field up to the declared length
ChunkAt(bytes, at) ==
    IF at + 7 > Len(bytes)
    THEN [type |-> <<>>, length |-> -1, data |-> <<>>, next |-> at]
    ELSE
    [type |-> SubSeq(bytes, at, at + 3),
     length |-> U32At(bytes, at + 4),
     data |-> SubSeq(bytes, at + 8, Min(Len(bytes), at + 7 + U32At(bytes, at + 4))),
     next |-> at + 8 + U32At(bytes, at + 4)]

Track0Chunk == ChunkAt(smf.bytes, 15)
Track1Chunk == ChunkAt(smf.bytes, Track0Chunk.next)

\* the length of the variable-length quantity that bytes starts with
VlqLength(bytes) == CHOOSE n \in 1..Len(bytes) :
                        bytes[n] < 128 /\ \A k \in 1..(n - 1) : bytes[k] >= 128

RECURSIVE ReadDeltas(_, _)
\* the delta-times of the events of a track, lens being the events' lengths
ReadDeltas(bytes, lens) ==
    IF lens = <<>> THEN <<>>
    ELSE LET n == VlqLength(bytes)
         IN  <<DecodeVlq(SubSeq(bytes, 1, n))>>
                 \o ReadDeltas(SubSeq(bytes, n + 1 + Head(lens), Len(bytes)), Tail(lens))

RECURSIVE SumUpTo(_, _)
SumUpTo(s, k) == IF k = 0 THEN 0 ELSE s[k] + SumUpTo(s, k - 1)

\* what C23 says of one track: timed are the track's events in written order
DeltasOfTrack(data, timed) ==
    LET deltas == ReadDeltas(data, [k \in DOMAIN timed |-> Len(timed[k].bytes)])
    IN  \A k \in DOMAIN timed :
            /\ deltas[k] >= 0
            /\ deltas[k] = timed[k].tick - (IF k = 1 THEN 0 ELSE timed[k - 1].tick)
            /\ SumUpTo(deltas, k) = timed[k].tick

(***************************************************************************)
(* C23: in each track the delta-time of the first event is its tick        *)
(* counted from 0 and the delta-time of every later event its tick minus   *)
(* the previous event's tick; every delta is >= 0 and the deltas up to an  *)
(* event add up to its tick, the event's tick floored and clamped to >= 0. *)
(***************************************************************************)
C23_DeltaTimes ==
    (smf.called /\ smf.returns) =>
        LET ev == parseMidiCsv(text).events
        IN  /\ DeltasOfTrack(Track0Chunk.data, smf.tempoTrackTimed)
            /\ DeltasOfTrack(Track1Chunk.data, smf.channelTimed)
            /\ \A k \in DOMAIN smf.channelTimed :
                   \E i \in DOMAIN ev :
                       /\ ev[i].type # "Tempo"
                       /\ smf.channelTimed[k].tick
                              = (IF Floor(ev[i].tick) < 0 THEN 0 ELSE Floor(ev[i].tick))

\* channel events at ticks 240, 240 and 0, rows in that order: deltas 0, 240, 0
C23_Witness ==
    /\ smf.called /\ smf.returns
    /\ text = <<(<<"2", "240", "Note_on_c", "0", "52", "90">>),
                (<<"2", "240", "Program_c", "0", "81">>),
                (<<"2", "0", "Note_on_c", "0", "52", "90">>)>>
    /\ ReadDeltas(Track1Chunk.data, <<3, 2, 3>>) = <<0, 240, 0>>

RECURSIVE ReadRest(_, _)
\* what is left of a track after its events, lens being the events' lengths
ReadRest(bytes, lens) ==
    IF lens = <<>> THEN bytes
    ELSE IF bytes = <<>> \/ \A n \in 1..Len(bytes) : bytes[n] >= 128 THEN <<-1>>
    ELSE ReadRest(SubSeq(bytes, VlqLength(bytes) + 1 + Head(lens), Len(bytes)), Tail(lens))

\* the one-to-one maps of 1..n onto itself
Perms(n) == {p \in [1..n -> 1..n] : \A i, j \in 1..n : i # j => p[i] # p[j]}

ClampTick(t) == IF Floor(t) < 0 THEN 0 ELSE Floor(t)

InputEvents == parseMidiCsv(text).events
InputOfKind(kinds) == SelectSeq(InputEvents, LAMBDA e : e.type \in kinds)

(***************************************************************************)
(* C24: track 0 holds one tempo meta-event per input Tempo event, in       *)
(* ascending tick order, and nothing else (one at tick 0 with mpqn 500000  *)
(* when there is no Tempo event); track 1 holds one channel message per    *)
(* input ProgramChange or Note event and no tempo event; no input event is *)
(* dropped or duplicated.                                                  *)
(***************************************************************************)
C24_PartitionByKind ==
    (smf.called /\ smf.returns) =>
        LET tempos == InputOfKind({"Tempo"})
            others == InputOfKind({"Program_c", "Note_on_c", "Note_off_c"})
            tt == smf.tempoTrackTimed
            ct == smf.channelTimed
        IN  /\ Len(tempos) + Len(others) = Len(InputEvents)
            \* track 0
            /\ \A k \in DOMAIN tt : SubSeq(tt[k].bytes, 1, 3) = <<255, 81, 3>> /\ Len(tt[k].bytes) = 6
            /\ \A k \in 1..(Len(tt) - 1) : tt[k].tick <= tt[k + 1].tick
            /\ ReadRest(Track0Chunk.data, [k \in DOMAIN tt |-> 6]) = <<0, 255, 47, 0>>
            /\ IF tempos = <<>>
               THEN tt = <<[tick |-> 0, order |-> 0, bytes |-> <<255, 81, 3, 7, 161, 32>>]>>
               ELSE /\ Len(tt) = Len(tempos)
                    /\ \E p \in Perms(Len(tempos)) : \A k \in DOMAIN tt :
                           /\ tt[k].tick = ClampTick(tempos[p[k]].tick)
                           /\ U32At(<<0>> \o SubSeq(tt[k].bytes, 4, 6), 1)
                                  = Max(1, Floor(tempos[p[k]].mpqn)) % 16777216
            \* track 1
            /\ Len(ct) = Len(others)
            /\ ReadRest(Track1Chunk.data, [k \in DOMAIN ct |-> Len(ct[k].bytes)])
                   = <<0, 255, 47, 0>>
            /\ \E p \in Perms(Len(others)) : \A k \in DOMAIN ct :
                   /\ ct[k].tick = ClampTick(others[p[k]].tick)
                   /\ Len(ct[k].bytes) = (IF others[p[k]].type = "Program_c" THEN 2 ELSE 3)
                   /\ ct[k].bytes[2] = (IF others[p[k]].type = "Program_c"
                                        THEN clamp7bit(others[p[k]].program)
                                        ELSE clamp7bit(others[p[k]].note))

\* two Tempo events, out of order, and a ProgramChange
C24_Witness ==
    /\ smf.called /\ smf.returns
    /\ Len(InputOfKind({"Tempo"})) = 2 /\ Len(smf.tempoTrackTimed) = 2
    /\ InputOfKind({"Tempo"})[1].tick = Fin(240)
    /\ smf.tempoTrackTimed[1].tick = 0

\* a Tempo event and a channel event in one input, one in each track
C24_WitnessBothTracks ==
    /\ smf.called /\ smf.returns
    /\ text = <<(<<"1", "0", "Tempo", "500000">>), (<<"2", "0", "Program_c", "0", "81">>)>>
    /\ Len(smf.tempoTrackTimed) = 1 /\ Len(smf.channelTimed) = 1

\* the last n elements of s
LastBytes(s, n) == SubSeq(s, Len(s) - n + 1, Len(s))

(***************************************************************************)
(* C25: each of the two track chunks is "MTrk", then a 4-byte big-endian   *)
(* length equal to the number of track bytes that follow, and the track    *)
(* bytes end with a zero delta-time and the end-of-track meta-event        *)
(* FF 2F 00, also when the track has no other event.                       *)
(***************************************************************************)
C25_TrackChunks ==
    (smf.called /\ smf.returns) =>
        /\ Track0Chunk.type = <<77, 84, 114, 107>>
        /\ Track1Chunk.type = <<77, 84, 114, 107>>
        /\ Len(Track0Chunk.data) = Track0Chunk.length
        /\ Len(Track1Chunk.data) = Track1Chunk.length
        \* the second chunk ends where the file ends: two chunks and no more
        /\ Track1Chunk.next = Len(smf.bytes) + 1
        /\ Track0Chunk.length >= 4 /\ Track1Chunk.length >= 4
        /\ LastBytes(Track0Chunk.data, 4) = <<0, 255, 47, 0>>
        /\ LastBytes(Track1Chunk.data, 4) = <<0, 255, 47, 0>>
        /\ smf.channelTimed = <<>> => Track1Chunk.data = <<0, 255, 47, 0>>

\* a track 1 without events after a track 0 with two
C25_Witness ==
    /\ smf.called /\ smf.returns
    /\ smf.channelTimed = <<>>
    /\ Len(smf.tempoTrackTimed) = 2
    /\ Track0Chunk.length = 18
    /\ Track1Chunk.length = 4

\* the written events of track 1 whose status byte has the high nibble n
WrittenWithStatus(n) ==
    {k \in DOMAIN smf.channelTimed :
        Len(smf.channelTimed[k].bytes) = 3 /\ smf.channelTimed[k].bytes[1] \div 16 = n}

\* the input note events that pairNotes treats as cls says
InputNotesThat(cls(_)) ==
    {i \in DOMAIN InputEvents :
        InputEvents[i].type \in {"Note_on_c", "Note_off_c"} /\ cls(InputEvents[i])}

(***************************************************************************)
(* C28: pairNotes and midiCsvToMidiFileBytes classify every note event the *)
(* same way: what pairNotes opens a note with is written as a note-on      *)
(* (status 0x9n), what it closes a note with is written as a note-off      *)
(* (status 0x8n), and no note event is ignored by the one and written by   *)
(* the other.  Stated for inputs whose channels are 0..15, where the       *)
(* status nibble is not overwritten by the channel.                        *)
(***************************************************************************)
C28_SameClassification ==
    (/\ smf.called
     /\ \A i \in DOMAIN InputEvents :
            InputEvents[i].type # "Tempo" =>
                \E c \in 0..15 : InputEvents[i].channel = Fin(c))
        => /\ Cardinality(WrittenWithStatus(9)) = Cardinality(InputNotesThat(isNoteOn))
           /\ Cardinality(WrittenWithStatus(8)) = Cardinality(InputNotesThat(isNoteOff))
           /\ Cardinality(WrittenWithStatus(8)) + Cardinality(WrittenWithStatus(9))
                  = Cardinality(InputNotesThat(LAMBDA e : isNoteOn(e) \/ isNoteOff(e)))

\* a Note-On of velocity -1: pairNotes passes it over, the file has a note-off
C28_IgnoredButWritten ==
    /\ smf.called
    /\ text = <<(<<"2", "0", "Note_on_c", "0", "60", "-1">>)>>
    /\ InputNotesThat(LAMBDA e : isNoteOn(e) \/ isNoteOff(e)) = {}
    /\ smf.channelTimed = <<[tick |-> 0, order |-> 1, bytes |-> <<128, 60, 0>>]>>

\* a Note-On of velocity 0.5: pairNotes opens a note, the file has a note-off
C28_OpenedButNoteOff ==
    /\ smf.called
    /\ text = <<(<<"2", "0", "Note_on_c", "0", "60", "0.5">>)>>
    /\ InputNotesThat(isNoteOn) = {1}
    /\ smf.channelTimed = <<[tick |-> 0, order |-> 1, bytes |-> <<128, 60, 0>>]>>

\* the note events of ev with key key that pairNotes treats as cls says
EventsOfKey(ev, key, cls(_)) ==
    {i \in DOMAIN ev : /\ ev[i].type \in {"Note_on_c", "Note_off_c"}
                       /\ keyFor(ev[i]) = key
                       /\ cls(ev[i])}

(***************************************************************************)
(* C30: every input note event contributes to at most one PairedNote: for  *)
(* each (channel, note) key the notes that start at a tick are at most the *)
(* opening events of that tick, the notes that end at a tick are at most   *)
(* the closing events of that tick, and so the notes of the key are at     *)
(* most the smaller of its opening and its closing events.                 *)
(***************************************************************************)
C30_EachEventInOneNote ==
    paired.called =>
        LET ev == parsed.events
            pn == paired.notes
        IN  \A key \in {keyFor(pn[k]) : k \in DOMAIN pn} :
                LET opens == EventsOfKey(ev, key, isNoteOn)
                    closes == EventsOfKey(ev, key, isNoteOff)
                    notes == {k \in DOMAIN pn : keyFor(pn[k]) = key}
                IN  /\ Cardinality(notes) <= Min(Cardinality(opens), Cardinality(closes))
                    /\ \A n \in notes :
                           /\ Cardinality({k \in notes : pn[k].startTick = pn[n].startTick})
                                <= Cardinality({i \in opens : ev[i].tick = pn[n].startTick})
                           /\ Cardinality({k \in notes : pn[k].endTick = pn[n].endTick})
                                <= Cardinality({i \in closes : ev[i].tick = pn[n].endTick})

\* one Note-On followed by two closes of its key: one note, not two
C30_Witness ==
    /\ paired.called
    /\ Cardinality(EventsOfKey(parsed.events, <<Fin(0), Fin(52)>>, isNoteOn)) = 1
    /\ Cardinality(EventsOfKey(parsed.events, <<Fin(0), Fin(52)>>, isNoteOff)) >= 2
    /\ Len(paired.notes) = 1

(***************************************************************************)
(* C27: at most one Tone.Part is live (created and not yet disposed) at    *)
(* any time, so that a Part stored in partRef finds the previous one       *)
(* disposed; at most one scheduled stop event is outstanding, and its id   *)
(* is the one held in stopEventIdRef.                                      *)
(***************************************************************************)
C27_OneLivePart ==
    /\ Cardinality(app.parts) <= 1
    /\ \A p \in app.parts : p.id = app.partRef
    /\ Cardinality(app.transport.events) <= 1
    /\ app.transport.events \subseteq {app.stopEventIdRef}

\* two calls of playFromCsv were both loading instruments and both went on:
\* two live Parts, one of them out of reach of partRef, and two stop events
C27_TwoLiveParts ==
    /\ app.calls = {}
    /\ {p.id : p \in app.parts} = {1, 2}
    /\ app.partRef = 2
    /\ app.transport.events = {1, 2}
    /\ app.stopEventIdRef = 2

InitPython ==
    /\ text = DEFAULT_CSV
    /\ parsed = NotCalled
    /\ tempoMap = NotCalled
    /\ smf = NotCalled
    /\ vlq = VlqIdle
    /\ paired = NotCalled
    /\ scheduled = NotCalled
    /\ app = AppMounted
    /\ py = PyodideModule

NextPython ==
    \/ RunPythonAndCaptureStdout
    \/ RunPythonAsync
    \/ PythonWritesStdout
    \/ PythonWritesStderr
    \/ RunPythonFinally

SpecPython == InitPython /\ [][NextPython]_vars

(***************************************************************************)
(* C29: each call of runPythonAndCaptureStdout returns exactly the stdout  *)
(* and stderr chunks written by its own Python run, also when two calls    *)
(* overlap: no chunk of one run is delivered to the other call or lost,    *)
(* and the capture sinks are cleared only when no run is in progress.      *)
(***************************************************************************)
C29_OwnChunksOnly ==
    /\ \A id \in DOMAIN py.calls :
           py.calls[id].pc = "returned" =>
               /\ py.calls[id].stdout = py.calls[id].wroteOut
               /\ py.calls[id].stderr = py.calls[id].wroteErr
    /\ \A id \in DOMAIN py.calls :
           \A k \in DOMAIN py.calls[id].stdout : py.calls[id].stdout[k][1] = id
    /\ (\E id \in DOMAIN py.calls : py.calls[id].pc = "runPythonAsync")
           => py.activeStdoutSink # NoId /\ py.activeStderrSink # NoId

\* two runs overlapped: the first call lost its second chunk to the second
C29_ChunkOfOtherRun ==
    /\ Len(py.calls) = 2
    /\ py.calls[1].pc = "returned" /\ py.calls[2].pc = "returned"
    /\ py.calls[1].wroteOut = <<(<<1, 1>>), (<<1, 2>>)>>
    /\ py.calls[1].stdout = <<(<<1, 1>>)>>
    /\ py.calls[2].stdout = <<(<<1, 2>>), (<<2, 1>>)>>

\* the first run ended while the second went on: its later chunk is lost
C29_ChunkLost ==
    /\ Len(py.calls) = 2
    /\ py.calls[1].pc = "returned" /\ py.calls[2].pc = "returned"
    /\ py.calls[2].wroteOut = <<(<<2, 1>>), (<<2, 2>>)>>
    /\ py.calls[2].stdout = <<(<<2, 1>>)>>
    /\ py.calls[1].stdout = py.calls[1].wroteOut

\* calls that do not overlap get their own chunks
C29_SequentialRuns ==
    /\ Len(py.calls) = 2
    /\ py.calls[1].pc = "returned" /\ py.calls[2].pc = "returned"
    /\ py.calls[1].stdout = <<(<<1, 1>>)>> /\ py.calls[1].stderr = <<(<<1, 2>>)>>
    /\ py.calls[2].stdout = <<(<<2, 1>>)>> /\ py.calls[2].stderr = <<(<<2, 2>>)>>

=============================================================================
